---- MODULE Spec2Model ----
(***************************************************************************)
(* The Dogecoin security watchdog (class DogecoinWatchdog of              *)
(* src/unnamed/part_006, lines 1-871) together with the HTTP routes that   *)
(* drive it (src/frontend/src/routes/watchdog.js).                         *)
(*                                                                         *)
(* Node.js runs one continuation at a time: every action below is the code *)
(* that runs between two suspension points (an await on network I/O or on  *)
(* a timer).  Awaits on promises that are already settled only yield to    *)
(* the microtask queue, where no request handler and no timer callback     *)
(* can run; they are folded into the continuation that precedes them.      *)
(***************************************************************************)
EXTENDS Integers, Sequences, FiniteSets, Bags, TLC

\* SpecThrow: timer callbacks that get past the guard, over a run.
ThrowTicks == 2
\* SpecSurge: timer callbacks that get past the guard, over a run.
SurgeTicks == 3
\* SpecVolatility: timer callbacks that get past the guard, over a run.
VolatilityTicks == 3
\* SpecTiming: timer callbacks that get past the guard, over a run.
TimingTicks == 2
\* SpecRetry: the retry limit of callWithRetry (config.rpc.maxRetries, 10 by
\* default).
maxRetries == 2

(***************************************************************************)
(* Bounds of the model.                                                    *)
(***************************************************************************)
\* Alert ledger capacity: the literal 1000 of createAlert (part_006:661),
\* scaled down so that truncation happens within the explored runs.
LedgerCapacity == 3
\* Number of ledger entries getOverallStatus and getStatus look at: the
\* literal 10 of part_006:759 and part_006:852, scaled with the ledger.
StatusWindow == 2
\* config.watchdog.maxBaselineRetries (part_003:38, WATCHDOG_MAX_RETRIES).
maxBaselineRetries == 2
\* Spec: calculateBaselines invocations in flight at the same time.
MaxCalcs == 1
\* Spec: intervals set and not yet cleared, counting those the pending
\* startMonitoring calls are about to set.
MaxTimers == 2
\* Spec: timer callbacks that get past the isMonitoring guard, over a run,
\* and performSecurityChecks invocations in flight at the same time.
MaxTicks == 2
MaxInFlight == 2
\* SpecLedger: timer callbacks that get past the guard, over a run.
LedgerTicks == 3
\* SpecClients: WebSocket connections over a run, and timer callbacks that
\* get past the guard.
MaxClients == 2
ClientTicks == 1
\* SpecRatio: timer callbacks that get past the guard, over a run.
RatioTicks == 2
\* SpecTick: timer callbacks that get past the guard, over a run.
TickTicks == 2
\* SpecDetect: timer callbacks that get past the guard, over a run.
DetectTicks == 2
\* SpecAck: timer callbacks that get past the guard, over a run.
AckTicks == 2
\* SpecStatus: timer callbacks that get past the guard, over a run.
StatusTicks == 2
\* SpecBaseline: calculateBaselines invocations in flight at the same time.
BaselineCalcs == 2
\* SpecQuery: timer callbacks that get past the guard, over a run, and the
\* largest limit a client asks for.
QueryTicks == 2
MaxLimit == 3

(***************************************************************************)
(* Program constants.                                                      *)
(***************************************************************************)
\* config.watchdog.thresholds, in tenths where the source has a fraction.
hashRateSpikeX10 == 50
hashRateDropX10 == 3
difficultySpikeX10 == 30
mempoolFlood == 10000
lowNodeCount == 50
\* GET /alerts: the limit when the query has none, and the severities it
\* filters on.
defaultLimit == 50
validSeverities == {"LOW", "MEDIUM", "HIGH", "CRITICAL"}
\* updateMetrics keeps the last 100 points of every series.
maxDataPoints == 100
\* checkHashrateAnomalies keeps 20, checkMempoolVolatility keeps 10.
hashrateHistory == 20
mempoolHistory == 10
\* initializeBaselines: avgBlockTime starts at 60 seconds.
defaultBlockTime == 60
\* calculateHashRate: 2^32 / 60 / 10^12 = 2^18 / (3 * 5^13); hash rates are
\* kept as numerators over the fixed denominator 3 * 5^13 (TH/s).
hashRateNumerator == 262144

(***************************************************************************)
(* Values.                                                                 *)
(***************************************************************************)
\* null is the empty sequence, a present value v is <<v>>.
Null == <<>>
Some(v) == <<v>>
\* JavaScript truthiness of a number-or-null.
Truthy(x) == x # Null /\ x[1] # 0

Min(a, b) == IF a < b THEN a ELSE b

\* Array.prototype.slice(0, n) and slice(-n).
SliceHead(s, n) == SubSeq(s, 1, Min(n, Len(s)))
SliceTail(s, n) == SubSeq(s, Len(s) - Min(n, Len(s)) + 1, Len(s))

RECURSIVE SeqSum(_)
SeqSum(s) == IF s = <<>> THEN 0 ELSE Head(s) + SeqSum(Tail(s))

\* calculateAverage: 0 for the empty array, else sum / length, kept as the
\* fraction num/den.
calculateAverage(values) ==
  IF Len(values) = 0 THEN [num |-> 0, den |-> 1]
  ELSE [num |-> SeqSum(values), den |-> Len(values)]

calculateHashRate(difficulty) == difficulty * hashRateNumerator

NoTimer == 0

VARIABLES
  enabled,             \* config.watchdog.enabled
  isMonitoring,        \* this.isMonitoring
  monitoringInterval,  \* this.monitoringInterval: NoTimer or a timer id
  timers,              \* the intervals set and not cleared (Node's timer table)
  alerts,              \* this.alerts, most recent first
  metrics,             \* this.metrics
  baselines,           \* this.baselines
  calcs,               \* calculateBaselines invocations in flight (a bag)
  ticks,               \* performSecurityChecks invocations in flight (a bag)
  nextId,              \* the id generateAlertId hands out next
  history,             \* ticks: how many ticks have started so far; stopped:
                       \* stopMonitoring has returned and startMonitoring has
                       \* not been called since
  last,                \* the continuation that ran last: what it was, what it
                       \* returned or answered, the events it emitted
  clients              \* wss.clients: the WebSocket clients of the server, with
                       \* the messages sent to each

vars == <<enabled, isMonitoring, monitoringInterval, timers, alerts, metrics,
          baselines, calcs, ticks, nextId, history, last, clients>>

\* The fields of the watchdog object (everything but the bookkeeping).
engine == <<isMonitoring, monitoringInterval, timers, alerts, metrics,
            baselines>>

initializeMetrics ==
  [hashRate |-> <<>>, difficulty |-> <<>>, blockTimes |-> <<>>,
   networkNodes |-> <<>>, mempool |-> <<>>, orphanBlocks |-> 0]

initializeBaselines ==
  [avgHashRate |-> Null,
   avgBlockTime |-> [num |-> defaultBlockTime, den |-> 1],
   avgDifficulty |-> Null,
   avgMempoolSize |-> Null,
   lastCalculated |-> Null]

Event(name, id) == [name |-> name, id |-> id]

\* What the continuation that ran was (op), the alert id it was called
\* with, the answer of the query it awaited or the object it answered with
\* (arg, 0 where no property needs it), what it returned or the code it
\* answered with (ret) and the events it emitted, in order.
RanWith(op, arg, ret, emitted) ==
  [op |-> op, arg |-> arg, ret |-> ret, emitted |-> emitted]
Ran(op, ret, emitted) == RanWith(op, 0, ret, emitted)

(***************************************************************************)
(* The WebSocket clients (part_010).  The listeners of setupWatchdogHandlers *)
(* run inside emit, so a continuation that emits an event also sends the   *)
(* broadcast of that event.                                                *)
(***************************************************************************)
\* The list a 'subscribe' message without a list sets (part_010:221).
defaultSubscriptions == {"alerts", "status", "metrics"}

\* The message type broadcast for each event of the watchdog that has a
\* listener (part_010:366-413); nothing listens to 'alertAcknowledged'.
Broadcasts ==
  [update |-> "watchdog_update", alert |-> "new_alert",
   started |-> "watchdog_started", stopped |-> "watchdog_stopped"]

\* A message sent to a client: its type and the id of the alert it carries
\* (0 when it carries none).
Message(type, id) == [type |-> type, id |-> id]

\* The subscription test of broadcastToClients (part_010:348).
subscribed(client, type) ==
  \/ client.subscriptions = Null
  \/ type \in client.subscriptions[1]
  \/ "all" \in client.subscriptions[1]

broadcastToClients(cl, type, id) ==
  [c \in DOMAIN cl |->
     IF cl[c].readyState = "OPEN" /\ subscribed(cl[c], type)
     THEN [cl[c] EXCEPT !.received = Append(@, Message(type, id))]
     ELSE cl[c]]

\* this.emit for each event of emitted, in order.
RECURSIVE emit(_, _)
emit(cl, emitted) ==
  IF emitted = <<>> THEN cl
  ELSE LET e == Head(emitted) IN
       emit(IF e.name \in DOMAIN Broadcasts
            THEN broadcastToClients(cl, Broadcasts[e.name], e.id)
            ELSE cl,
            Tail(emitted))

\* A continuation of the watchdog ends: what it returned, and the
\* broadcasts of the events it emitted.
ReturnsWith(op, arg, ret, emitted) ==
  /\ last' = RanWith(op, arg, ret, emitted)
  /\ clients' = emit(clients, emitted)
Returns(op, ret, emitted) == ReturnsWith(op, 0, ret, emitted)

NoClients == [c \in {} |-> Null]

Init ==
  /\ enabled \in BOOLEAN
  /\ isMonitoring = FALSE
  /\ monitoringInterval = NoTimer
  /\ timers = {}
  /\ alerts = <<>>
  /\ metrics = initializeMetrics
  /\ baselines = initializeBaselines
  /\ calcs = EmptyBag
  /\ ticks = EmptyBag
  /\ nextId = 1
  /\ history = [ticks |-> 0, stopped |-> FALSE]
  /\ last = Ran("constructor", "void", <<>>)
  /\ clients = NoClients

(***************************************************************************)
(* Alert ledger.                                                           *)
(***************************************************************************)
\* createAlert without the slice: the ledger grows without bound.
createAlertUnbounded(als, id, type, severity, data) ==
  <<[id |-> id, type |-> type, severity |-> severity, data |-> data,
     acknowledged |-> FALSE]>> \o als

\* createAlert rebuilding the ledger entries: the flags are lost.
createAlertResetting(als, id, type, severity, data) ==
  LET grown == <<[id |-> id, type |-> type, severity |-> severity,
                  data |-> data, acknowledged |-> FALSE]>> \o als
  IN  SliceHead([i \in 1..Len(grown) |->
                   [grown[i] EXCEPT !.acknowledged = FALSE]], LedgerCapacity)

\* createAlert on ledger als with the id generateAlertId returns: unshift,
\* then slice(0, 1000).
createAlert(als, id, type, severity, data) ==
  SliceHead(<<[id |-> id, type |-> type, severity |-> severity,
               data |-> data, acknowledged |-> FALSE]>> \o als,
            LedgerCapacity)

\* A run of createAlert calls, in call order, for the sequence fired of
\* [type, severity, data] records; ids are handed out from id upwards.
RECURSIVE createAlerts(_, _, _)
createAlerts(als, id, fired) ==
  IF fired = <<>> THEN als
  ELSE createAlerts(createAlert(als, id, Head(fired).type,
                                Head(fired).severity, Head(fired).data),
                    id + 1, Tail(fired))

\* The 'alert' events of that run, in emission order.
AlertEvents(id, fired) == [i \in 1..Len(fired) |-> Event("alert", id + i - 1)]
AlertIds(id, fired) == [i \in 1..Len(fired) |-> id + i - 1]

\* A createAlert call: its type, its severity and, of its data argument,
\* the fields the properties below look at (Null when there is none).
FiredWith(type, severity, data) ==
  [type |-> type, severity |-> severity, data |-> data]
Fired(type, severity) == FiredWith(type, severity, Null)

\* getRecentAlerts returning the oldest alerts of the ledger.
getRecentAlertsOldest(limit) == SliceTail(alerts, limit)

getRecentAlerts(limit) == SliceHead(alerts, limit)

\* Array.prototype.filter / find on the ledger.
Filter(s, Test(_)) == SelectSeq(s, Test)
\* find falling back to the head of the ledger for an unknown id.
FindIndexOrHead(als, alertId) ==
  IF \E i \in 1..Len(als) : als[i].id = alertId
  THEN CHOOSE i \in 1..Len(als) :
         /\ als[i].id = alertId
         /\ \A j \in 1..(i - 1) : als[j].id # alertId
  ELSE Min(1, Len(als))

FindIndex(als, alertId) ==
  IF \E i \in 1..Len(als) : als[i].id = alertId
  THEN CHOOSE i \in 1..Len(als) :
         /\ als[i].id = alertId
         /\ \A j \in 1..(i - 1) : als[j].id # alertId
  ELSE 0

\* getOverallStatus looking for HIGH before CRITICAL.
getOverallStatusHighFirst ==
  IF ~isMonitoring THEN "OFFLINE"
  ELSE LET recentAlerts == getRecentAlerts(StatusWindow)
           IsCritical(a) == a.severity = "CRITICAL" /\ ~a.acknowledged
           IsHigh(a) == a.severity = "HIGH" /\ ~a.acknowledged
           IsMedium(a) == a.severity = "MEDIUM" /\ ~a.acknowledged
       IN  IF Len(Filter(recentAlerts, IsHigh)) > 0 THEN "HIGH_ALERT"
           ELSE IF Len(Filter(recentAlerts, IsCritical)) > 0
           THEN "CRITICAL_ALERT"
           ELSE IF Len(Filter(recentAlerts, IsMedium)) > 0 THEN "MEDIUM_ALERT"
           ELSE "SECURE"

\* getOverallStatus keyed on the interval handle instead of isMonitoring.
getOverallStatusByTimer ==
  IF monitoringInterval = NoTimer THEN "OFFLINE"
  ELSE LET recentAlerts == getRecentAlerts(StatusWindow)
           IsCritical(a) == a.severity = "CRITICAL" /\ ~a.acknowledged
           IsHigh(a) == a.severity = "HIGH" /\ ~a.acknowledged
           IsMedium(a) == a.severity = "MEDIUM" /\ ~a.acknowledged
       IN  IF Len(Filter(recentAlerts, IsCritical)) > 0 THEN "CRITICAL_ALERT"
           ELSE IF Len(Filter(recentAlerts, IsHigh)) > 0 THEN "HIGH_ALERT"
           ELSE IF Len(Filter(recentAlerts, IsMedium)) > 0 THEN "MEDIUM_ALERT"
           ELSE "SECURE"

getOverallStatus ==
  IF ~isMonitoring THEN "OFFLINE"
  ELSE LET recentAlerts == getRecentAlerts(StatusWindow)
           IsCritical(a) == a.severity = "CRITICAL" /\ ~a.acknowledged
           IsHigh(a) == a.severity = "HIGH" /\ ~a.acknowledged
           IsMedium(a) == a.severity = "MEDIUM" /\ ~a.acknowledged
       IN  IF Len(Filter(recentAlerts, IsCritical)) > 0 THEN "CRITICAL_ALERT"
           ELSE IF Len(Filter(recentAlerts, IsHigh)) > 0 THEN "HIGH_ALERT"
           ELSE IF Len(Filter(recentAlerts, IsMedium)) > 0 THEN "MEDIUM_ALERT"
           ELSE "SECURE"

\* getStatus counting the alerts it returns instead of those of the
\* ledger.
getStatusCountingRecent ==
  [isMonitoring |-> isMonitoring,
   status |-> getOverallStatus,
   alertCount |-> Len(getRecentAlerts(StatusWindow)),
   recentAlerts |-> getRecentAlerts(StatusWindow),
   baselines |-> baselines]

\* getRecentAlerts: the limit when it is called without one.
recentLimit == 50

\* What the 'update' event carries (part_006:211-215), without the
\* metrics: the status and the recent alerts at the time it is emitted.
updateEvent ==
  [status |-> getOverallStatus, alerts |-> getRecentAlerts(recentLimit)]

\* getStatus (part_006:847-857), without thresholds and the time of day.
getStatus ==
  [isMonitoring |-> isMonitoring,
   status |-> getOverallStatus,
   alertCount |-> Len(alerts),
   recentAlerts |-> getRecentAlerts(StatusWindow),
   baselines |-> baselines]

\* acknowledgeAlert marking every alert of the same type as the one found.
acknowledgeSameType(caller, alertId, found, notFound) ==
  LET i == FindIndex(alerts, alertId) IN
  /\ IF i # 0
     THEN /\ alerts' = [j \in 1..Len(alerts) |->
                          IF alerts[j].type = alerts[i].type
                          THEN [alerts[j] EXCEPT !.acknowledged = TRUE]
                          ELSE alerts[j]]
          /\ ReturnsWith(caller, alertId, found,
                             <<Event("alertAcknowledged", alertId)>>)
     ELSE /\ alerts' = alerts
          /\ ReturnsWith(caller, alertId, notFound, <<>>)
  /\ UNCHANGED <<enabled, isMonitoring, monitoringInterval, timers, metrics,
                 baselines, calcs, ticks, nextId, history>>

\* acknowledgeAlert writing back a copy of the ledger taken before the
\* ticks in flight started: what they have appended since is lost.
acknowledgeStaleCopy(caller, alertId, found, notFound) ==
  LET i == FindIndex(alerts, alertId)
      Older(a) == \A t \in DOMAIN ticks :
                    \A k \in 1..Len(t.created) : t.created[k] # a.id
  IN
  /\ IF i # 0
     THEN /\ alerts' = SelectSeq([alerts EXCEPT ![i].acknowledged = TRUE],
                                 Older)
          /\ ReturnsWith(caller, alertId, found,
                             <<Event("alertAcknowledged", alertId)>>)
     ELSE /\ alerts' = alerts
          /\ ReturnsWith(caller, alertId, notFound, <<>>)
  /\ UNCHANGED <<enabled, isMonitoring, monitoringInterval, timers, metrics,
                 baselines, calcs, ticks, nextId, history>>

\* acknowledgeAlert(alertId), called by caller: the WebSocket handler
\* (found = the boolean it returns) or the HTTP route (200 / 404).
acknowledge(caller, alertId, found, notFound) ==
  LET i == FindIndex(alerts, alertId) IN
  /\ IF i # 0
     THEN /\ alerts' = [alerts EXCEPT ![i].acknowledged = TRUE]
          /\ ReturnsWith(caller, alertId, found,
                             <<Event("alertAcknowledged", alertId)>>)
     ELSE /\ alerts' = alerts
          /\ ReturnsWith(caller, alertId, notFound, <<>>)
  /\ UNCHANGED <<enabled, isMonitoring, monitoringInterval, timers, metrics,
                 baselines, calcs, ticks, nextId, history>>

\* GET /status (routes/watchdog.js:55-67): the route answers with what
\* getStatus returns.
GetStatus ==
  /\ ReturnsWith("GET /status", getStatus, "200", <<>>)
  /\ UNCHANGED <<enabled, isMonitoring, monitoringInterval, timers, alerts,
                 metrics, baselines, calcs, ticks, nextId, history>>

\* The query string of GET /alerts: each parameter is absent (Null) or
\* present.
Query(limit, severity, acknowledged) ==
  [limit |-> limit, severity |-> severity, acknowledged |-> acknowledged]

\* What GET /alerts answers to the query (routes/watchdog.js:93-109): the
\* recent alerts, then the two filters over them.
alertsFor(query) ==
  LET limit == IF query.limit = Null THEN defaultLimit ELSE query.limit[1]
      recent == getRecentAlerts(limit)
      HasSeverity(alert) == alert.severity = query.severity[1]
      HasFlag(alert) == alert.acknowledged = query.acknowledged[1]
      bySeverity == IF query.severity # Null
                       /\ query.severity[1] \in validSeverities
                    THEN SelectSeq(recent, HasSeverity) ELSE recent
  IN  IF query.acknowledged # Null THEN SelectSeq(bySeverity, HasFlag)
      ELSE bySeverity

\* The queries clients send: a limit up to MaxLimit or none, HIGH,
\* CRITICAL or no severity, acknowledged true, false or absent.
Queries ==
  {Query(limit, severity, acknowledged) :
     limit \in {Null} \cup {Some(n) : n \in 0..MaxLimit},
     severity \in {Null, Some("HIGH"), Some("CRITICAL")},
     acknowledged \in {Null, Some(TRUE), Some(FALSE)}}

\* GET /alerts (routes/watchdog.js:91-123).
GetAlerts == \E query \in Queries :
  /\ ReturnsWith("GET /alerts",
                 [query |-> query, alerts |-> alertsFor(query)], "200", <<>>)
  /\ UNCHANGED <<enabled, isMonitoring, monitoringInterval, timers, alerts,
                 metrics, baselines, calcs, ticks, nextId, history>>

\* Ids a client can send: every id handed out so far and one never used.
AckIds == 1..nextId

AcknowledgeAlert == \E alertId \in AckIds :
  acknowledge("acknowledgeAlert", alertId, "true", "false")

PostAcknowledge == \E alertId \in AckIds :
  acknowledge("POST /alerts/:alertId/acknowledge", alertId, "200", "404")

(***************************************************************************)
(* Start, stop and the baseline computation.                               *)
(***************************************************************************)
BagAdd(b, e) == b (+) SetToBag({e})
BagRemove(b, e) == b (-) SetToBag({e})

NoInfo == [difficulty |-> 0, mempoolSize |-> 0, blocks |-> 0]

\* A calculateBaselines invocation suspended at pc; caller is the function
\* that awaits it.
Calc(caller, pc, attempt, info) ==
  [caller |-> caller, pc |-> pc, attempt |-> attempt, info |-> info]

\* The number of startMonitoring calls awaiting their baselines.
PendingStarts ==
  LET Starting == {c \in BagToSet(calcs) : c.caller = "startMonitoring"}
      Copies(c) == CopiesIn(c, calcs)
      RECURSIVE Count(_)
      Count(S) == IF S = {} THEN 0
                  ELSE LET c == CHOOSE x \in S : TRUE
                       IN  Copies(c) + Count(S \ {c})
  IN  Count(Starting)

\* setInterval returns a handle that no live interval has.
newTimer == CHOOSE n \in 1..(Cardinality(timers) + 1) : n \notin timers

\* startMonitoring without its first guard.
neverAlreadyMonitoring == FALSE

\* startMonitoring, first guard (part_006:64).
alreadyMonitoring == isMonitoring

\* startMonitoring up to its first suspension, the liveness call of
\* waitForNodeReady.  op is the entry point: server.startWatchdog calls the
\* method directly, the HTTP route after its own check.
startMonitoring(op) ==
  /\ history' = [history EXCEPT !.stopped = FALSE]
  /\ IF alreadyMonitoring
     THEN /\ Returns(op, "already monitoring", <<>>)
          /\ UNCHANGED <<enabled, isMonitoring, monitoringInterval, timers,
                         alerts, metrics, baselines, calcs, ticks, nextId>>
     ELSE IF ~enabled
     THEN /\ Returns(op, "disabled", <<>>)
          /\ UNCHANGED <<enabled, isMonitoring, monitoringInterval, timers,
                         alerts, metrics, baselines, calcs, ticks, nextId>>
     ELSE /\ isMonitoring' = TRUE
          /\ calcs' = BagAdd(calcs, Calc("startMonitoring",
                                         "waitForNodeReady", 1, NoInfo))
          /\ Returns(op, "pending", <<>>)
          /\ UNCHANGED <<enabled, monitoringInterval, timers, alerts,
                         metrics, baselines, ticks, nextId>>

StartMonitoring == startMonitoring("startMonitoring")

\* POST /start (routes/watchdog.js:165-184).
PostStart ==
  IF isMonitoring
  THEN /\ Returns("POST /start", "409", <<>>)
       /\ UNCHANGED <<enabled, isMonitoring, monitoringInterval, timers,
                      alerts, metrics, baselines, calcs, ticks, nextId,
                      history>>
  ELSE startMonitoring("POST /start")

\* stopMonitoring, guard (part_006:101).
notMonitoring == ~isMonitoring

\* clearInterval(this.monitoringInterval) when it is set (part_006:108-111).
clearedTimers ==
  IF monitoringInterval # NoTimer THEN timers \ {monitoringInterval}
  ELSE timers

stopMonitoring(op, returned) ==
  /\ history' = [history EXCEPT !.stopped = TRUE]
  /\ IF notMonitoring
     THEN /\ Returns(op, "not monitoring", <<>>)
          /\ UNCHANGED <<enabled, isMonitoring, monitoringInterval, timers,
                         alerts, metrics, baselines, calcs, ticks, nextId>>
     ELSE /\ isMonitoring' = FALSE
          /\ timers' = clearedTimers
          /\ monitoringInterval' = NoTimer
          /\ Returns(op, returned, <<Event("stopped", 0)>>)
          /\ UNCHANGED <<enabled, alerts, metrics, baselines, calcs, ticks,
                         nextId>>

StopMonitoring == stopMonitoring("stopMonitoring", "returned")

\* POST /stop (routes/watchdog.js:190-209).
PostStop ==
  IF ~isMonitoring
  THEN /\ Returns("POST /stop", "409", <<>>)
       /\ UNCHANGED <<enabled, isMonitoring, monitoringInterval, timers,
                      alerts, metrics, baselines, calcs, ticks, nextId,
                      history>>
  ELSE stopMonitoring("POST /stop", "200")

\* POST /recalculate-baselines (routes/watchdog.js:215-239), up to the
\* first suspension of calculateBaselines.
PostRecalculate ==
  IF ~isMonitoring
  THEN /\ Returns("POST /recalculate-baselines", "409", <<>>)
       /\ UNCHANGED <<enabled, isMonitoring, monitoringInterval, timers,
                      alerts, metrics, baselines, calcs, ticks, nextId,
                      history>>
  ELSE /\ calcs' = BagAdd(calcs, Calc("POST /recalculate-baselines",
                                      "waitForNodeReady", 1, NoInfo))
       /\ Returns("POST /recalculate-baselines", "pending", <<>>)
       /\ UNCHANGED <<enabled, isMonitoring, monitoringInterval, timers,
                      alerts, metrics, baselines, ticks, nextId, history>>

\* calculateBaselines has returned (it never throws) after leaving the
\* baselines at b, and its caller resumes: startMonitoring sets the
\* interval, emits 'started' and returns (part_006:82-88); the
\* recalculation route reads the status and answers 200.
CalcReturnsWith(c, b, op, arg) ==
  /\ baselines' = b
  /\ calcs' = BagRemove(calcs, c)
  /\ IF c.caller = "startMonitoring"
     THEN /\ timers' = timers \cup {newTimer}
          /\ monitoringInterval' = newTimer
          /\ ReturnsWith(op, arg, "started", <<Event("started", 0)>>)
     ELSE /\ UNCHANGED <<timers, monitoringInterval>>
          /\ ReturnsWith(op, arg, "200", <<>>)
  /\ UNCHANGED <<enabled, isMonitoring, alerts, metrics, ticks, nextId,
                 history>>

CalcReturns(c, b, op) == CalcReturnsWith(c, b, op, 0)

CalcMovesWith(c, c2, op, arg) ==
  /\ calcs' = BagAdd(BagRemove(calcs, c), c2)
  /\ ReturnsWith(op, arg, "pending", <<>>)
  /\ UNCHANGED <<enabled, isMonitoring, monitoringInterval, timers, alerts,
                 metrics, baselines, ticks, nextId, history>>

CalcMoves(c, c2, op) == CalcMovesWith(c, c2, op, 0)

CalcsAt(pc) == {c \in BagToSet(calcs) : c.pc = pc}

\* The codes of two errors rpc.call throws (part_007:105-111): the
\* connection is refused, the node rejects the credentials.
ConnectionRefused == 0 - 1
AuthenticationFailed == 401

\* waitForNodeReady giving up one attempt later.
lastAttemptOneMore(c) == c.attempt = maxBaselineRetries + 1

\* waitForNodeReady, the test of its catch block (part_006:166).
lastAttempt(c) == c.attempt = maxBaselineRetries

\* waitForNodeReady: the liveness call of attempt c.attempt answers, or it
\* throws one of errors; the catch block does not look at the error.  The
\* attempt counter is a local of waitForNodeReady: it is gone (0) once the
\* function has returned.  The error of a failed call is recorded in
\* last.arg.
WaitForNodeReadyOf(errors) == \E c \in CalcsAt("waitForNodeReady") :
  \/ CalcMoves(c, [c EXCEPT !.pc = "getNodeInfo", !.attempt = 0],
               "waitForNodeReady")
  \/ \E error \in errors :
       IF lastAttempt(c)
       THEN CalcReturnsWith(c, baselines, "waitForNodeReady", error)
       ELSE CalcMovesWith(c, [c EXCEPT !.pc = "retryDelay"],
                          "waitForNodeReady", error)

WaitForNodeReady == WaitForNodeReadyOf({ConnectionRefused})

\* waitForNodeReady trying again without counting the attempt.
sameAttempt(c) == c.attempt

\* waitForNodeReady, the step of its loop (part_006:160).
nextAttempt(c) == c.attempt + 1

\* waitForNodeReady: the delay between two attempts has elapsed.
RetryDelay == \E c \in CalcsAt("retryDelay") :
  CalcMoves(c, [c EXCEPT !.pc = "waitForNodeReady",
                         !.attempt = nextAttempt(c)],
            "retryDelay")

\* What the node reports to getNodeInfo.
NodeInfos ==
  {[difficulty |-> d, mempoolSize |-> 0, blocks |-> 100] : d \in {1}}

\* rpc.getNodeInfo answers (Promise.all of three calls, part_007:200-213):
\* it fails, or it reports one of infos.
GetNodeInfoOf(infos) == \E c \in CalcsAt("getNodeInfo") :
  \/ CalcReturns(c, baselines, "getNodeInfo")
  \/ \E info \in infos :
       CalcMoves(c, [c EXCEPT !.pc = "getRecentBlockTimes", !.info = info],
                 "getNodeInfo")

GetNodeInfo == GetNodeInfoOf(NodeInfos)

\* SpecRatio: the node reports difficulty 1 or difficulty 20.
RatioNodeInfos ==
  {[difficulty |-> d, mempoolSize |-> 0, blocks |-> 100] : d \in {1, 20}}

RatioGetNodeInfo == GetNodeInfoOf(RatioNodeInfos)

\* Intervals getRecentBlockTimes returns in Spec and SpecLedger.
BlockTimeLists == {<<60, 62>>}

\* calculateBaselines keeping the mempool size of the baselines it finds.
newBaselinesMerging(info, blockTimes) ==
  [avgHashRate |-> Some(calculateHashRate(info.difficulty)),
   avgBlockTime |-> calculateAverage(blockTimes),
   avgDifficulty |-> Some(info.difficulty),
   avgMempoolSize |-> IF baselines.avgMempoolSize # Null
                      THEN baselines.avgMempoolSize
                      ELSE Some(info.mempoolSize),
   lastCalculated |-> Some(1)]

\* The baselines calculateBaselines assigns (part_006:138-144); the time
\* of day is left out, lastCalculated only records that there is one.
newBaselines(info, blockTimes) ==
  [avgHashRate |-> Some(calculateHashRate(info.difficulty)),
   avgBlockTime |-> calculateAverage(blockTimes),
   avgDifficulty |-> Some(info.difficulty),
   avgMempoolSize |-> Some(info.mempoolSize),
   lastCalculated |-> Some(1)]

\* getRecentBlockTimes has returned: the baselines are replaced
\* (part_006:135-144) and calculateBaselines returns.
GetRecentBlockTimesOf(lists) == \E c \in CalcsAt("getRecentBlockTimes") :
  \E blockTimes \in lists :
    CalcReturns(c, newBaselines(c.info, blockTimes), "getRecentBlockTimes")

GetRecentBlockTimes == GetRecentBlockTimesOf(BlockTimeLists)

(***************************************************************************)
(* The tick: performSecurityChecks.                                        *)
(***************************************************************************)
\* Fractions num/den; den = 0 is NaN, which compares false with everything.
NaN == [num |-> 0, den |-> 0]
\* a > k * b and a < k, for fractions a, b and an integer k.
RatGreater(a, k, b) ==
  /\ a.den # 0 /\ b.den # 0
  /\ a.num * b.den > k * b.num * a.den
RatLess(a, k) == a.den # 0 /\ a.num < k * a.den
RatMore(a, k) == a.den # 0 /\ a.num > k * a.den

\* A point of a metrics series: which field carries the number, and the
\* number (timestamps are left out).
Point(field, v) == [field |-> field, v |-> v]

\* values.map(p => p[field]): a point without that field yields undefined,
\* and the sum of the reduce becomes NaN.
averageOf(points, field) ==
  IF \E i \in 1..Len(points) : points[i].field # field THEN NaN
  ELSE calculateAverage([i \in 1..Len(points) |-> points[i].v])

updateMetrics(m, currentData) ==
  [m EXCEPT
     !.hashRate = SliceTail(Append(@, Point("value",
                    calculateHashRate(currentData.difficulty))), maxDataPoints),
     !.difficulty = SliceTail(Append(@, Point("value",
                    currentData.difficulty)), maxDataPoints),
     !.mempool = SliceTail(Append(@, Point("value",
                    currentData.mempoolSize)), maxDataPoints),
     !.networkNodes = SliceTail(Append(@, Point("value",
                    currentData.peers)), maxDataPoints)]

\* The detectors: each yields the alerts it creates, in order.
checkLowNodeCount(nodeCount) ==
  IF nodeCount < lowNodeCount THEN <<Fired("LOW_NODE_COUNT", "MEDIUM")>>
  ELSE <<>>

checkMempoolFlooding(mempoolSize) ==
  IF mempoolSize > mempoolFlood THEN <<Fired("MEMPOOL_FLOOD", "HIGH")>>
  ELSE <<>>

\* checkHashRateAnomalies with ratio >= hashRateSpike for the spike.
checkHashRateAnomaliesInclusive(b, currentDifficulty) ==
  LET currentHashRate == calculateHashRate(currentDifficulty)
      baselineHashRate == b.avgHashRate[1]
  IN  IF currentHashRate * 10 >= hashRateSpikeX10 * baselineHashRate
      THEN <<Fired("HASH_RATE_SPIKE", "CRITICAL")>>
      ELSE IF currentHashRate * 10 < hashRateDropX10 * baselineHashRate
      THEN <<Fired("HASH_RATE_DROP", "HIGH")>>
      ELSE <<>>

\* ratio = currentHashRate / baselineHashRate against 5.0 and 0.3; the
\* baseline is positive here.  Hash rates are exact: the rounding of the
\* double-precision quotient is not modelled.
checkHashRateAnomalies(b, currentDifficulty) ==
  LET currentHashRate == calculateHashRate(currentDifficulty)
      baselineHashRate == b.avgHashRate[1]
  IN  IF currentHashRate * 10 > hashRateSpikeX10 * baselineHashRate
      THEN <<Fired("HASH_RATE_SPIKE", "CRITICAL")>>
      ELSE IF currentHashRate * 10 < hashRateDropX10 * baselineHashRate
      THEN <<Fired("HASH_RATE_DROP", "HIGH")>>
      ELSE <<>>

\* checkDifficultySpikes with a threshold twice that of the hash-rate
\* spike.
checkDifficultySpikesAboveHashRateSpike(b, currentDifficulty) ==
  IF currentDifficulty * 10 > 2 * hashRateSpikeX10 * b.avgDifficulty[1]
  THEN <<Fired("DIFFICULTY_SPIKE", "HIGH")>>
  ELSE <<>>

\* ratio = currentDifficulty / baselineDifficulty against 3.0
\* (part_006:365-369).
checkDifficultySpikes(b, currentDifficulty) ==
  IF currentDifficulty * 10 > difficultySpikeX10 * b.avgDifficulty[1]
  THEN <<Fired("DIFFICULTY_SPIKE", "HIGH")>>
  ELSE <<>>

\* analyzeSecurityThreats without the two baseline tests: a division by
\* null yields Infinity for a positive difficulty.
analyzeSecurityThreatsUnguarded(b, currentData) ==
  checkLowNodeCount(currentData.peers)
  \o checkMempoolFlooding(currentData.mempoolSize)
  \o (IF Truthy(b.avgHashRate)
      THEN checkHashRateAnomalies(b, currentData.difficulty)
      ELSE IF currentData.difficulty > 0
      THEN <<Fired("HASH_RATE_SPIKE", "CRITICAL")>> ELSE <<>>)
  \o (IF Truthy(b.avgDifficulty)
      THEN checkDifficultySpikes(b, currentData.difficulty)
      ELSE IF currentData.difficulty > 0
      THEN <<Fired("DIFFICULTY_SPIKE", "HIGH")>> ELSE <<>>)

\* analyzeSecurityThreats taking the difficulty baseline from the initial
\* baselines and the hash-rate baseline from b.
analyzeSecurityThreatsOnTwoBaselines(b, currentData) ==
  checkLowNodeCount(currentData.peers)
  \o checkMempoolFlooding(currentData.mempoolSize)
  \o (IF Truthy(b.avgHashRate)
      THEN checkHashRateAnomalies(b, currentData.difficulty) ELSE <<>>)
  \o (IF Truthy(initializeBaselines.avgDifficulty)
      THEN checkDifficultySpikes(initializeBaselines, currentData.difficulty)
      ELSE <<>>)

\* analyzeSecurityThreats up to the call of check51PercentAttack.
analyzeSecurityThreats(b, currentData) ==
  checkLowNodeCount(currentData.peers)
  \o checkMempoolFlooding(currentData.mempoolSize)
  \o (IF Truthy(b.avgHashRate)
      THEN checkHashRateAnomalies(b, currentData.difficulty) ELSE <<>>)
  \o (IF Truthy(b.avgDifficulty)
      THEN checkDifficultySpikes(b, currentData.difficulty) ELSE <<>>)

\* check51PercentAttack returning at once only while the node is syncing.
skip51PercentChecksWhenSyncing(b, currentData) ==
  currentData.initialblockdownload

\* check51PercentAttack returns at once (part_006:391-399).
skip51PercentChecks(b, currentData) ==
  \/ currentData.initialblockdownload
  \/ b.avgBlockTime.den = 0
  \/ b.avgBlockTime.num <= 0

IsFork(tip, depth) == tip.status = "valid-fork" /\ tip.branchlen >= depth

\* The largest element of a non-empty sequence of numbers (Math.max).
SeqMax(s) == CHOOSE x \in {s[i] : i \in 1..Len(s)} :
               \A i \in 1..Len(s) : s[i] <= x

branchlens(chainTips) == [i \in 1..Len(chainTips) |-> chainTips[i].branchlen]

\* The data of a DEEP_REORGANIZATION alert (part_006:433-436).
deepReorgData(deepReorgs) ==
  [forkDepth |-> SeqMax(branchlens(deepReorgs)),
   totalForks |-> Len(deepReorgs), chainTips |-> deepReorgs]

\* The second test of checkForDeepReorgs counting the forks of one block
\* too.
frequentReorgsOfAnyLength(chainTips) ==
  LET Shallow(tip) == IsFork(tip, 1)
  IN  Len(Filter(chainTips, Shallow)) >= 3

\* The second test of checkForDeepReorgs (part_006:444-448).
frequentReorgs(chainTips) ==
  LET Shallow(tip) == IsFork(tip, 2)
  IN  Len(Filter(chainTips, Shallow)) >= 3

\* checkForDeepReorgs alerting on forks longer than six blocks only.
checkForDeepReorgsAboveSix(chainTips) ==
  LET Deep(tip) == IsFork(tip, 7)
      deepReorgs == Filter(chainTips, Deep)
  IN  (IF Len(deepReorgs) > 0
       THEN <<FiredWith("DEEP_REORGANIZATION", "CRITICAL",
                        deepReorgData(deepReorgs))>>
       ELSE <<>>)
      \o (IF frequentReorgs(chainTips)
          THEN <<Fired("FREQUENT_REORGANIZATIONS", "HIGH")>> ELSE <<>>)

\* checkForDeepReorgs on the chain tips the node answered with.
checkForDeepReorgs(chainTips) ==
  LET Deep(tip) == IsFork(tip, 6)
      deepReorgs == Filter(chainTips, Deep)
  IN  (IF Len(deepReorgs) > 0
       THEN <<FiredWith("DEEP_REORGANIZATION", "CRITICAL",
                        deepReorgData(deepReorgs))>>
       ELSE <<>>)
      \o (IF frequentReorgs(chainTips)
          THEN <<Fired("FREQUENT_REORGANIZATIONS", "HIGH")>> ELSE <<>>)

\* checkHashrateAnomalies: the series after the push and the slice, and
\* the alert.
pushHashrate(series, currentData) ==
  LET pushed == Append(series, Point("hashrate", currentData.networkhashps))
  IN  IF Len(pushed) > hashrateHistory THEN SliceTail(pushed, hashrateHistory)
      ELSE pushed

checkHashrateAnomalies(series) ==
  IF Len(series) >= 5
     /\ RatGreater(averageOf(SliceTail(series, 3), "hashrate"), 3,
                   averageOf(SubSeq(series, 1, Len(series) - 3), "hashrate"))
  THEN <<Fired("HASHRATE_SURGE", "CRITICAL")>>
  ELSE <<>>

\* checkBlockTimingAnomalies on the times of the blocks getRecentBlocks
\* returned, newest first.
positiveIntervals(blockTimes) ==
  LET all == [i \in 1..(Len(blockTimes) - 1) |->
                blockTimes[i] - blockTimes[i + 1]]
      Positive(x) == x > 0
  IN  SelectSeq(all, Positive)

\* checkBlockTimingAnomalies taking the five oldest intervals for the
\* recent ones.
checkBlockTimingAnomaliesOldestFive(recentBlocks) ==
  IF Len(recentBlocks) < 10 THEN <<>>
  ELSE LET blockTimes == positiveIntervals(recentBlocks) IN
       IF Len(blockTimes) = 0 THEN <<>>
       ELSE IF SeqMax(blockTimes) > 1200
               /\ RatLess(calculateAverage(SliceTail(blockTimes, 5)), 30)
       THEN <<Fired("SUSPICIOUS_BLOCK_PATTERN", "CRITICAL")>>
       ELSE IF RatLess(calculateAverage(blockTimes), 30)
       THEN <<Fired("RAPID_BLOCK_GENERATION", "HIGH")>>
       ELSE <<>>

checkBlockTimingAnomalies(recentBlocks) ==
  IF Len(recentBlocks) < 10 THEN <<>>
  ELSE LET blockTimes == positiveIntervals(recentBlocks) IN
       IF Len(blockTimes) = 0 THEN <<>>
       ELSE IF SeqMax(blockTimes) > 1200
               /\ RatLess(calculateAverage(SliceHead(blockTimes, 5)), 30)
       THEN <<Fired("SUSPICIOUS_BLOCK_PATTERN", "CRITICAL")>>
       ELSE IF RatLess(calculateAverage(blockTimes), 30)
       THEN <<Fired("RAPID_BLOCK_GENERATION", "HIGH")>>
       ELSE <<>>

\* checkMempoolVolatility: the series after the push and the slice, and
\* the alert.
pushMempool(series, mempoolSize) ==
  LET pushed == Append(series, Point("size", mempoolSize))
  IN  IF Len(pushed) > mempoolHistory THEN SliceTail(pushed, mempoolHistory)
      ELSE pushed

checkMempoolVolatility(series) ==
  LET recentAvg == averageOf(SliceTail(series, 2), "size")
      baselineAvg == averageOf(SubSeq(series, 1, Len(series) - 2), "size")
  IN  IF Len(series) >= 5
         /\ RatGreater(recentAvg, 5, baselineAvg)
         /\ RatMore(baselineAvg, 10)
      THEN <<Fired("MEMPOOL_VOLATILITY", "HIGH")>>
      ELSE <<>>

NoData == [difficulty |-> 0, initialblockdownload |-> FALSE,
           networkhashps |-> 0, mempoolSize |-> 0, peers |-> 0, blocks |-> 0]

\* A performSecurityChecks invocation suspended at pc, with the snapshot it
\* fetched and the ids of the alerts it has created so far.
Tick(pc, currentData, created) ==
  [pc |-> pc, currentData |-> currentData, created |-> created]

TicksAt(pc) == {t \in BagToSet(ticks) : t.pc = pc}

\* performSecurityChecks without its guard.
tickRunsAlways == TRUE

\* performSecurityChecks, guard (part_006:182).
tickRuns == isMonitoring

\* An interval fires: performSecurityChecks up to the await on the four
\* sub-queries.
PerformSecurityChecks == \E tm \in timers :
  IF ~tickRuns
  THEN /\ Returns("performSecurityChecks", "not monitoring", <<>>)
       /\ UNCHANGED <<enabled, isMonitoring, monitoringInterval, timers,
                      alerts, metrics, baselines, calcs, ticks, nextId,
                      history>>
  ELSE /\ ticks' = BagAdd(ticks, Tick("fetch", NoData, <<>>))
       /\ history' = [history EXCEPT !.ticks = @ + 1]
       /\ Returns("performSecurityChecks", "pending", <<>>)
       /\ UNCHANGED <<enabled, isMonitoring, monitoringInterval, timers,
                      alerts, metrics, baselines, calcs, nextId>>

\* The continuation of a tick giving up, without a trace, when it finds the
\* watchdog stopped.
TickStepWithAborting(t, t2, fired, m, done, op, arg) ==
  IF ~isMonitoring
  THEN /\ ticks' = BagRemove(ticks, t)
       /\ ReturnsWith(op, arg, "aborted", <<>>)
       /\ UNCHANGED <<enabled, isMonitoring, monitoringInterval, timers,
                      alerts, metrics, baselines, calcs, nextId, history>>
  ELSE /\ alerts' = createAlerts(alerts, nextId, fired)
       /\ nextId' = nextId + Len(fired)
       /\ metrics' = m
       /\ IF done
          THEN /\ ticks' = BagRemove(ticks, t)
               /\ ReturnsWith(op, arg, "update",
                              AlertEvents(nextId, fired)
                                \o <<Event("update", 0)>>)
          ELSE /\ ticks' = BagAdd(BagRemove(ticks, t),
                      [t2 EXCEPT !.created = @ \o AlertIds(nextId, fired)])
               /\ ReturnsWith(op, arg, "pending", AlertEvents(nextId, fired))
       /\ UNCHANGED <<enabled, isMonitoring, monitoringInterval, timers,
                      baselines, calcs, history>>

\* The tick emitting 'update' before the 'alert' events of its last
\* stretch.
TickStepWithUpdateFirst(t, t2, fired, m, done, op, arg) ==
  /\ alerts' = createAlerts(alerts, nextId, fired)
  /\ nextId' = nextId + Len(fired)
  /\ metrics' = m
  /\ IF done
     THEN /\ ticks' = BagRemove(ticks, t)
          /\ ReturnsWith(op, arg, "update",
                         <<Event("update", 0)>> \o AlertEvents(nextId, fired))
     ELSE /\ ticks' = BagAdd(BagRemove(ticks, t),
                 [t2 EXCEPT !.created = @ \o AlertIds(nextId, fired)])
          /\ ReturnsWith(op, arg, "pending", AlertEvents(nextId, fired))
  /\ UNCHANGED <<enabled, isMonitoring, monitoringInterval, timers,
                 baselines, calcs, history>>

\* The tick t creates the alerts fired and leaves the metrics at m; then it
\* either suspends as t2 or, when done is true, emits 'update' and ends.
\* arg is what the awaited query answered with, where a property needs it.
TickStepWith(t, t2, fired, m, done, op, arg) ==
  /\ alerts' = createAlerts(alerts, nextId, fired)
  /\ nextId' = nextId + Len(fired)
  /\ metrics' = m
  /\ IF done
     THEN /\ ticks' = BagRemove(ticks, t)
          /\ ReturnsWith(op, arg, "update",
                         AlertEvents(nextId, fired) \o <<Event("update", 0)>>)
     ELSE /\ ticks' = BagAdd(BagRemove(ticks, t),
                 [t2 EXCEPT !.created = @ \o AlertIds(nextId, fired)])
          /\ ReturnsWith(op, arg, "pending", AlertEvents(nextId, fired))
  /\ UNCHANGED <<enabled, isMonitoring, monitoringInterval, timers,
                 baselines, calcs, history>>

\* The tick emitting 'update' at every suspension, not only at its end.
TickStepUpdatingEachStep(t, t2, fired, m, done, op) ==
  /\ alerts' = createAlerts(alerts, nextId, fired)
  /\ nextId' = nextId + Len(fired)
  /\ metrics' = m
  /\ IF done
     THEN /\ ticks' = BagRemove(ticks, t)
          /\ Returns(op, "update",
                     AlertEvents(nextId, fired) \o <<Event("update", 0)>>)
     ELSE /\ ticks' = BagAdd(BagRemove(ticks, t),
                 [t2 EXCEPT !.created = @ \o AlertIds(nextId, fired)])
          /\ Returns(op, "pending",
                     AlertEvents(nextId, fired) \o <<Event("update", 0)>>)
  /\ UNCHANGED <<enabled, isMonitoring, monitoringInterval, timers,
                 baselines, calcs, history>>

TickStep(t, t2, fired, m, done, op) ==
  TickStepWith(t, t2, fired, m, done, op, 0)

\* The catch block of performSecurityChecks (part_006:217-227).
systemError == <<Fired("SYSTEM_ERROR", "CRITICAL")>>

SubQueries == {"getblockchaininfo", "getnetworkinfo", "getmempoolinfo",
               "getpeerinfo"}

\* A rejected fetch that still runs the detectors on the missing snapshot
\* before it reaches the catch block.
FetchFailsAfterDetectors(t) == \E failed \in (SUBSET SubQueries) \ {{}} :
  LET fired == analyzeSecurityThreats(baselines, NoData) \o systemError IN
  /\ alerts' = createAlerts(alerts, nextId, fired)
  /\ nextId' = nextId + Len(fired)
  /\ ticks' = BagRemove(ticks, t)
  /\ Returns("fetch", "rejected", AlertEvents(nextId, fired))
  /\ UNCHANGED <<enabled, isMonitoring, monitoringInterval, timers, metrics,
                 baselines, calcs, history>>

\* The catch block of performSecurityChecks run after updateMetrics has
\* recorded the missing snapshot.
caughtAfterUpdateMetrics(t) ==
  /\ alerts' = createAlerts(alerts, nextId, systemError)
  /\ nextId' = nextId + Len(systemError)
  /\ metrics' = updateMetrics(metrics, NoData)
  /\ ticks' = BagRemove(ticks, t)
  /\ Returns("fetch", "rejected", AlertEvents(nextId, systemError))
  /\ UNCHANGED <<enabled, isMonitoring, monitoringInterval, timers,
                 baselines, calcs, history>>

\* The await on Promise.all throws in the tick t: control goes from
\* part_006:190 to the catch block (part_006:217-227), which creates the
\* SYSTEM_ERROR alert, and the tick ends without an update event.
caught(t) ==
  /\ alerts' = createAlerts(alerts, nextId, systemError)
  /\ nextId' = nextId + Len(systemError)
  /\ ticks' = BagRemove(ticks, t)
  /\ Returns("fetch", "rejected", AlertEvents(nextId, systemError))
  /\ UNCHANGED <<enabled, isMonitoring, monitoringInterval, timers, metrics,
                 baselines, calcs, history>>

\* Promise.all over the four sub-queries rejects, because one of them or
\* more failed.
FetchFails(t) == \E failed \in (SUBSET SubQueries) \ {{}} : caught(t)

\* Promise.all resolves with the snapshot currentData: updateMetrics,
\* analyzeSecurityThreats up to the chain-tips query of checkForDeepReorgs.
\* arg is what the step records of the snapshot in last.arg.
FetchStep(t, currentData, arg) ==
  TickStepWith(t, [t EXCEPT !.pc = "getChainTips",
                            !.currentData = currentData],
               analyzeSecurityThreats(baselines, currentData),
               updateMetrics(metrics, currentData),
               skip51PercentChecks(baselines, currentData),
               "fetch", arg)

FetchSucceeds(t, currentData) == FetchStep(t, currentData, currentData)

\* The snapshots the node answers with.
Snapshot(difficulty, ibd, mempoolSize, peers) ==
  [difficulty |-> difficulty, initialblockdownload |-> ibd,
   networkhashps |-> difficulty, mempoolSize |-> mempoolSize,
   peers |-> peers, blocks |-> 100]

\* The four sub-queries settle; the node answers with one of snapshots.
FetchOf(snapshots) == \E t \in TicksAt("fetch") :
  \/ FetchFails(t)
  \/ \E currentData \in snapshots : FetchSucceeds(t, currentData)

\* Spec: a quiet node that is still syncing.
Snapshots == {Snapshot(1, TRUE, 0, 50)}

Fetch == FetchOf(Snapshots)

\* SpecLedger: a syncing node with too few peers and a flooded mempool;
\* every tick that fetches it creates a MEDIUM and then a HIGH alert.
LedgerSnapshots == {Snapshot(1, TRUE, 10001, 49)}

LedgerFetch == FetchOf(LedgerSnapshots)

\* SpecTick: a quiet synced node, and one whose difficulty is six times
\* that of NodeInfos.
TickSnapshots == {Snapshot(1, FALSE, 0, 50), Snapshot(6, FALSE, 0, 50)}

TickFetch == FetchOf(TickSnapshots)

\* SpecRatio: a syncing node whose difficulty is 4, 5 or 6.
RatioSnapshots == {Snapshot(d, TRUE, 0, 50) : d \in {4, 5, 6}}

RatioFetch == FetchOf(RatioSnapshots)

Tip(status, branchlen) == [status |-> status, branchlen |-> branchlen]

\* What rpc.getChainTips resolves with; a failing query resolves with the
\* empty list (part_007:219-226).
ChainTips == {<<>>, <<Tip("active", 0), Tip("valid-fork", 7)>>}

\* The chain tips arrive: the rest of checkForDeepReorgs, all of
\* checkHashrateAnomalies, and checkBlockTimingAnomalies up to the block
\* lookups of getRecentBlocks.
\* arg is what the step records of the chain tips in last.arg.
ChainTipsStep(t, chainTips, arg) ==
  LET series == pushHashrate(metrics.hashRate, t.currentData) IN
  TickStepWith(t, [t EXCEPT !.pc = "getRecentBlocks"],
               checkForDeepReorgs(chainTips)
                 \o checkHashrateAnomalies(series),
               [metrics EXCEPT !.hashRate = series],
               FALSE, "getChainTips", arg)

GetChainTipsOf(tips) == \E t \in TicksAt("getChainTips") :
  \E chainTips \in tips : ChainTipsStep(t, chainTips, chainTips)

GetChainTips == GetChainTipsOf(ChainTips)

\* Block times getRecentBlocks can return, newest first: it stops at the
\* first failing lookup and asks for at most ten blocks.
RecentBlocks ==
  {<<>>, [i \in 1..10 |-> 1000 - 10 * i]}

\* getRecentBlocks has returned: the rest of checkBlockTimingAnomalies and
\* checkMempoolVolatility up to its mempool query.
GetRecentBlocks == \E t \in TicksAt("getRecentBlocks") :
  \E recentBlocks \in RecentBlocks :
    TickStep(t, [t EXCEPT !.pc = "getMempoolInfo"],
             checkBlockTimingAnomalies(recentBlocks), metrics,
             FALSE, "getRecentBlocks")

\* What rpc.getMempoolInfo answers: a size, or Null when the call fails.
MempoolInfos == {Null, Some(0)}

\* The mempool query answers with one of infos: the rest of
\* checkMempoolVolatility, then the update event of performSecurityChecks.
\* A failing query is caught and logged (part_006:637-639).  The answer is
\* recorded in last.arg as arg.
MempoolInfoStep(t, mempoolInfo, arg) ==
  IF mempoolInfo = Null
  THEN TickStepWith(t, t, <<>>, metrics, TRUE, "getMempoolInfo", arg)
  ELSE LET series == pushMempool(metrics.mempool, mempoolInfo[1]) IN
       TickStepWith(t, t, checkMempoolVolatility(series),
                    [metrics EXCEPT !.mempool = series], TRUE,
                    "getMempoolInfo", arg)

GetMempoolInfoOf(infos) == \E t \in TicksAt("getMempoolInfo") :
  \E mempoolInfo \in infos : MempoolInfoStep(t, mempoolInfo, mempoolInfo)

GetMempoolInfo == GetMempoolInfoOf(MempoolInfos)

(***************************************************************************)
(* Specifications.  The guards added here only bound the runs: they limit  *)
(* how often the environment calls in, never what the code does.           *)
(***************************************************************************)
\* A startMonitoring call that gets past its guards finds room.
RoomToStart(maxCalcs, maxTimers) ==
  \/ isMonitoring
  \/ ~enabled
  \/ /\ BagCardinality(calcs) < maxCalcs
     /\ Cardinality(timers) + PendingStarts < maxTimers

RoomToRecalculate(maxCalcs) ==
  ~isMonitoring \/ BagCardinality(calcs) < maxCalcs

RoomToTick(maxTicks, maxInFlight) ==
  \/ ~isMonitoring
  \/ /\ history.ticks < maxTicks
     /\ BagCardinality(ticks) < maxInFlight

\* Spec: starts, stops, recalculations and ticks that overlap, on a quiet
\* node that is still syncing; the acknowledgements are in SpecLedger and
\* SpecAck.
Next ==
  \/ RoomToStart(MaxCalcs, MaxTimers) /\ StartMonitoring
  \/ RoomToStart(MaxCalcs, MaxTimers) /\ PostStart
  \/ StopMonitoring
  \/ PostStop
  \/ RoomToRecalculate(MaxCalcs) /\ PostRecalculate
  \/ WaitForNodeReady
  \/ RetryDelay
  \/ GetNodeInfo
  \/ GetRecentBlockTimes
  \/ RoomToTick(MaxTicks, MaxInFlight) /\ PerformSecurityChecks
  \/ Fetch

Spec == Init /\ [][Next]_vars

\* SpecLedger: the watchdog is started when it is fully stopped, as
\* server.startWatchdog does at boot; its ticks do not overlap, the node
\* is syncing and answers with alarming snapshots, clients acknowledge.
FullyStopped == ~isMonitoring /\ timers = {} /\ calcs = EmptyBag

NextLedger ==
  \/ FullyStopped /\ StartMonitoring
  \/ isMonitoring /\ StopMonitoring
  \/ WaitForNodeReady
  \/ RetryDelay
  \/ GetNodeInfo
  \/ GetRecentBlockTimes
  \/ isMonitoring /\ RoomToTick(LedgerTicks, 1) /\ PerformSecurityChecks
  \/ LedgerFetch
  \/ AcknowledgeAlert
  \/ PostAcknowledge

SpecLedger == Init /\ [][NextLedger]_vars

\* SpecTick: one start, then ticks of a synced node, which run the whole
\* detector pipeline; two of them may be in flight at once.
NextTick ==
  \/ FullyStopped /\ ~history.stopped /\ StartMonitoring
  \/ isMonitoring /\ StopMonitoring
  \/ WaitForNodeReady
  \/ RetryDelay
  \/ GetNodeInfo
  \/ GetRecentBlockTimes
  \/ isMonitoring /\ RoomToTick(TickTicks, 2) /\ PerformSecurityChecks
  \/ TickFetch
  \/ GetChainTips
  \/ GetRecentBlocks
  \/ GetMempoolInfo

SpecTick == Init /\ [][NextTick]_vars

\* SpecRatio: one start whose baseline computation fails or finds
\* difficulty 1 or 20, then ticks of a syncing node of difficulty 4, 5 or
\* 6 that do not overlap, and recalculations of the baseline.
NextRatio ==
  \/ FullyStopped /\ ~history.stopped /\ StartMonitoring
  \/ WaitForNodeReady
  \/ RetryDelay
  \/ RatioGetNodeInfo
  \/ GetRecentBlockTimes
  \/ isMonitoring /\ RoomToTick(RatioTicks, 1) /\ PerformSecurityChecks
  \/ RatioFetch
  \/ RoomToRecalculate(1) /\ ticks = EmptyBag /\ PostRecalculate

SpecRatio == Init /\ [][NextRatio]_vars

\* SpecDetect: the node is syncing or synced; the block-time lookups of
\* the baseline computation fail at once, find two blocks out of order, or
\* find intervals of 60 and 62 seconds; the chain tips vary.
DetectSnapshots == {Snapshot(1, TRUE, 0, 50), Snapshot(1, FALSE, 0, 50)}

DetectFetch == FetchOf(DetectSnapshots)

DetectBlockTimeLists == {<<>>, <<0 - 30>>, <<60, 62>>}

DetectGetRecentBlockTimes == GetRecentBlockTimesOf(DetectBlockTimeLists)

DetectChainTips ==
  {<<>>,
   <<Tip("active", 0), Tip("valid-fork", 5)>>,
   <<Tip("valid-fork", 6)>>,
   <<Tip("valid-headers", 7)>>,
   <<Tip("valid-fork", 7), Tip("valid-fork", 9), Tip("valid-headers", 12)>>,
   <<Tip("valid-fork", 2), Tip("valid-fork", 6), Tip("valid-fork", 3)>>,
   <<Tip("valid-fork", 2), Tip("valid-fork", 2), Tip("valid-fork", 1)>>,
   <<Tip("valid-fork", 2), Tip("valid-fork", 3), Tip("valid-fork", 2),
     Tip("valid-fork", 4)>>}

DetectGetChainTips == GetChainTipsOf(DetectChainTips)

\* One start, then ticks that run the whole detector pipeline one after
\* the other.
NextDetect ==
  \/ FullyStopped /\ ~history.stopped /\ StartMonitoring
  \/ WaitForNodeReady
  \/ RetryDelay
  \/ GetNodeInfo
  \/ DetectGetRecentBlockTimes
  \/ isMonitoring /\ RoomToTick(DetectTicks, 1) /\ PerformSecurityChecks
  \/ DetectFetch
  \/ DetectGetChainTips
  \/ GetRecentBlocks
  \/ GetMempoolInfo

SpecDetect == Init /\ [][NextDetect]_vars

\* SpecAck: a synced node with too few peers and a fork of seven blocks:
\* every tick creates an alert at its fetch and another when the chain
\* tips arrive.  Its ticks run one after the other while clients
\* acknowledge.
AckSnapshots == {Snapshot(1, FALSE, 0, 49)}

AckFetch == FetchOf(AckSnapshots)

AckChainTips == {<<Tip("valid-fork", 7)>>}

AckGetChainTips == GetChainTipsOf(AckChainTips)

NextAck ==
  \/ FullyStopped /\ ~history.stopped /\ StartMonitoring
  \/ WaitForNodeReady
  \/ RetryDelay
  \/ GetNodeInfo
  \/ GetRecentBlockTimes
  \/ isMonitoring /\ RoomToTick(AckTicks, 1) /\ PerformSecurityChecks
  \/ AckFetch
  \/ AckGetChainTips
  \/ GetRecentBlocks
  \/ GetMempoolInfo
  \/ AcknowledgeAlert
  \/ PostAcknowledge

SpecAck == Init /\ [][NextAck]_vars

\* SpecStatus: one start and one stop, ticks of the alarming syncing node
\* of SpecLedger one after the other, clients that acknowledge and poll
\* the status.
NextStatus ==
  \/ FullyStopped /\ ~history.stopped /\ StartMonitoring
  \/ isMonitoring /\ StopMonitoring
  \/ WaitForNodeReady
  \/ RetryDelay
  \/ GetNodeInfo
  \/ GetRecentBlockTimes
  \/ isMonitoring /\ RoomToTick(StatusTicks, 1) /\ PerformSecurityChecks
  \/ LedgerFetch
  \/ AcknowledgeAlert
  \/ GetStatus

SpecStatus == Init /\ [][NextStatus]_vars

\* SpecQuery: one start, ticks of the alarming syncing node of SpecLedger
\* one after the other, some of which fail, clients that acknowledge and
\* list the alerts.
NextQuery ==
  \/ FullyStopped /\ ~history.stopped /\ StartMonitoring
  \/ WaitForNodeReady
  \/ RetryDelay
  \/ GetNodeInfo
  \/ GetRecentBlockTimes
  \/ isMonitoring /\ RoomToTick(QueryTicks, 1) /\ PerformSecurityChecks
  \/ LedgerFetch
  \/ AcknowledgeAlert
  \/ GetAlerts

SpecQuery == Init /\ [][NextQuery]_vars

\* SpecBaseline: the node reports difficulty 1 with 10 transactions in the
\* mempool or difficulty 20 with 200, and block intervals of 30 seconds
\* or of 60 and 62.
BaselineNodeInfos ==
  {[difficulty |-> d, mempoolSize |-> 10 * d, blocks |-> 100] : d \in {1, 20}}

BaselineGetNodeInfo == GetNodeInfoOf(BaselineNodeInfos)

BaselineBlockTimeLists == {<<30>>, <<60, 62>>}

BaselineGetRecentBlockTimes == GetRecentBlockTimesOf(BaselineBlockTimeLists)

\* SpecThrow: a synced node with too few peers and a flooded mempool, and
\* one fork of seven blocks.
ThrowSnapshots == {Snapshot(1, FALSE, 10001, 49)}

ThrowChainTips == {<<Tip("active", 0), Tip("valid-fork", 7)>>}

\* A detector called by analyzeSecurityThreats throwing with nothing to
\* catch the exception: the promise of performSecurityChecks rejects.
analyzeThrowsUncaught(t, currentData) ==
  \E k \in 0..Len(analyzeSecurityThreats(baselines, currentData)) :
    LET fired == SubSeq(analyzeSecurityThreats(baselines, currentData), 1, k)
    IN  /\ alerts' = createAlerts(alerts, nextId, fired)
        /\ nextId' = nextId + Len(fired)
        /\ metrics' = updateMetrics(metrics, currentData)
        /\ ticks' = BagRemove(ticks, t)
        /\ ReturnsWith("fetch", {"analyzeSecurityThreats"}, "rejected",
                       AlertEvents(nextId, fired))
        /\ UNCHANGED <<enabled, isMonitoring, monitoringInterval, timers,
                       baselines, calcs, history>>

\* One of the detectors analyzeSecurityThreats calls directly throws
\* (part_006:272-288), after k of the alerts of this tick were created:
\* nothing catches the exception before the catch block of
\* performSecurityChecks (part_006:217-227), which creates the SYSTEM_ERROR
\* alert; the tick ends without an update event.
analyzeThrows(t, currentData) ==
  \E k \in 0..Len(analyzeSecurityThreats(baselines, currentData)) :
    LET fired == SubSeq(analyzeSecurityThreats(baselines, currentData), 1, k)
                   \o systemError
    IN  /\ alerts' = createAlerts(alerts, nextId, fired)
        /\ nextId' = nextId + Len(fired)
        /\ metrics' = updateMetrics(metrics, currentData)
        /\ ticks' = BagRemove(ticks, t)
        /\ ReturnsWith("fetch", {"analyzeSecurityThreats"}, "caught",
                       AlertEvents(nextId, fired))
        /\ UNCHANGED <<enabled, isMonitoring, monitoringInterval, timers,
                       baselines, calcs, history>>

\* The alerts of a detector that may have thrown: its own catch block only
\* logs (part_006:412-414, 460-462, 507-509, 590-592, 637-639).
Unless(thrown, detector, fired) == IF detector \in thrown THEN <<>> ELSE fired

\* The snapshot arrives; the detectors of analyzeSecurityThreats run to
\* their end or one of them throws.  In SpecThrow last.arg is the set of
\* the detectors that threw in the step.
ThrowFetch == \E t \in TicksAt("fetch") : \E currentData \in ThrowSnapshots :
  \/ analyzeThrows(t, currentData)
  \/ TickStepWith(t, [t EXCEPT !.pc = "getChainTips",
                               !.currentData = currentData],
                  analyzeSecurityThreats(baselines, currentData),
                  updateMetrics(metrics, currentData),
                  skip51PercentChecks(baselines, currentData),
                  "fetch", {})

\* The chain tips arrive; checkForDeepReorgs and checkHashrateAnomalies run
\* or throw at their first statement.
ThrowGetChainTips == \E t \in TicksAt("getChainTips") :
  \E chainTips \in ThrowChainTips :
    \E thrown \in SUBSET {"checkForDeepReorgs", "checkHashrateAnomalies"} :
      LET series == IF "checkHashrateAnomalies" \in thrown
                    THEN metrics.hashRate
                    ELSE pushHashrate(metrics.hashRate, t.currentData)
      IN  TickStepWith(t, [t EXCEPT !.pc = "getRecentBlocks"],
                       Unless(thrown, "checkForDeepReorgs",
                              checkForDeepReorgs(chainTips))
                         \o Unless(thrown, "checkHashrateAnomalies",
                                   checkHashrateAnomalies(series)),
                       [metrics EXCEPT !.hashRate = series],
                       FALSE, "getChainTips", thrown)

\* getRecentBlocks has returned; checkBlockTimingAnomalies runs or throws.
ThrowGetRecentBlocks == \E t \in TicksAt("getRecentBlocks") :
  \E recentBlocks \in RecentBlocks :
    \E thrown \in SUBSET {"checkBlockTimingAnomalies"} :
      TickStepWith(t, [t EXCEPT !.pc = "getMempoolInfo"],
                   Unless(thrown, "checkBlockTimingAnomalies",
                          checkBlockTimingAnomalies(recentBlocks)),
                   metrics, FALSE, "getRecentBlocks", thrown)

\* The mempool query answers or throws; checkMempoolVolatility runs or is
\* left by the exception, then performSecurityChecks emits its update.
ThrowGetMempoolInfo == \E t \in TicksAt("getMempoolInfo") :
  \E thrown \in SUBSET {"checkMempoolVolatility"} :
    LET series == IF "checkMempoolVolatility" \in thrown THEN metrics.mempool
                  ELSE pushMempool(metrics.mempool, t.currentData.mempoolSize)
    IN  TickStepWith(t, t,
                     Unless(thrown, "checkMempoolVolatility",
                            checkMempoolVolatility(series)),
                     [metrics EXCEPT !.mempool = series],
                     TRUE, "getMempoolInfo", thrown)

\* One start and one stop, then ticks, one after the other, whose detectors
\* may throw.
NextThrow ==
  \/ FullyStopped /\ ~history.stopped /\ StartMonitoring
  \/ isMonitoring /\ StopMonitoring
  \/ WaitForNodeReady
  \/ RetryDelay
  \/ GetNodeInfo
  \/ GetRecentBlockTimes
  \/ RoomToTick(ThrowTicks, 1) /\ PerformSecurityChecks
  \/ ThrowFetch
  \/ ThrowGetChainTips
  \/ ThrowGetRecentBlocks
  \/ ThrowGetMempoolInfo

SpecThrow == Init /\ [][NextThrow]_vars

\* SpecSurge: a synced node whose difficulty and network hash rate are 1 or
\* 10, without forks.
SurgeSnapshots == {Snapshot(1, FALSE, 0, 50), Snapshot(10, FALSE, 0, 50)}

SurgeFetch == FetchOf(SurgeSnapshots)

SurgeChainTips == {<<>>}

SurgeGetChainTips == GetChainTipsOf(SurgeChainTips)

\* One start, then ticks that run the whole detector pipeline one after
\* the other.
NextSurge ==
  \/ FullyStopped /\ ~history.stopped /\ StartMonitoring
  \/ WaitForNodeReady
  \/ RetryDelay
  \/ GetNodeInfo
  \/ GetRecentBlockTimes
  \/ isMonitoring /\ RoomToTick(SurgeTicks, 1) /\ PerformSecurityChecks
  \/ SurgeFetch
  \/ SurgeGetChainTips
  \/ GetRecentBlocks
  \/ GetMempoolInfo

SpecSurge == Init /\ [][NextSurge]_vars

\* SpecVolatility: a synced node without forks whose mempool holds 20 or
\* 200 transactions, at the snapshot and at the query of the detector.
VolatilitySnapshots == {Snapshot(1, FALSE, 20, 50), Snapshot(1, FALSE, 200, 50)}

VolatilityFetch == FetchOf(VolatilitySnapshots)

VolatilityMempoolInfos == {Null, Some(20), Some(200)}

VolatilityGetMempoolInfo == GetMempoolInfoOf(VolatilityMempoolInfos)

\* One start, then ticks that run the whole detector pipeline one after
\* the other.
NextVolatility ==
  \/ FullyStopped /\ ~history.stopped /\ StartMonitoring
  \/ WaitForNodeReady
  \/ RetryDelay
  \/ GetNodeInfo
  \/ GetRecentBlockTimes
  \/ isMonitoring /\ RoomToTick(VolatilityTicks, 1) /\ PerformSecurityChecks
  \/ VolatilityFetch
  \/ SurgeGetChainTips
  \/ GetRecentBlocks
  \/ VolatilityGetMempoolInfo

SpecVolatility == Init /\ [][NextVolatility]_vars

\* The times of the blocks, newest first, whose successive intervals are
\* intervals, newest first.
BlocksOf(intervals) ==
  [i \in 1..(Len(intervals) + 1) |-> 5000 - SeqSum(SubSeq(intervals, 1, i - 1))]

\* n intervals of d seconds.
Run(n, d) == [i \in 1..n |-> d]

\* SpecTiming: what getRecentBlocks returns, as intervals between the
\* blocks, newest first: ten blocks 10, 29, 30 or 60 seconds apart; a gap
\* of 1300, 1201 or 1200 seconds before five recent blocks or after the
\* newest one; blocks out of order; blocks with one and the same time; and
\* nine blocks only, or none.
TimingIntervals ==
  {Run(9, 10), Run(9, 29), Run(9, 30), Run(9, 60), Run(9, 0),
   Run(5, 10) \o <<1300>> \o Run(3, 10),
   Run(5, 10) \o <<1201>> \o Run(3, 10),
   Run(5, 10) \o <<1200>> \o Run(3, 10),
   Run(5, 30) \o <<1300>> \o Run(3, 10),
   Run(4, 10) \o <<1300>> \o Run(4, 10),
   <<1300>> \o Run(8, 10),
   <<10, 10, 0 - 20, 10, 10, 10, 1300, 10, 10>>,
   <<0 - 10, 0 - 10, 0 - 10, 10, 1300, 0 - 10, 0 - 10, 0 - 10, 0 - 10>>,
   Run(8, 10),
   Run(4, 10) \o <<1300>> \o Run(3, 10)}

TimingRecentBlocks == {<<>>} \cup {BlocksOf(intervals) : intervals \in TimingIntervals}

\* getRecentBlocks has returned one of blocks: the rest of
\* checkBlockTimingAnomalies and checkMempoolVolatility up to its mempool
\* query.  The block times are recorded in last.arg.
GetRecentBlocksOf(blocks) == \E t \in TicksAt("getRecentBlocks") :
  \E recentBlocks \in blocks :
    TickStepWith(t, [t EXCEPT !.pc = "getMempoolInfo"],
                 checkBlockTimingAnomalies(recentBlocks), metrics,
                 FALSE, "getRecentBlocks", recentBlocks)

TimingGetRecentBlocks == GetRecentBlocksOf(TimingRecentBlocks)

\* One start, then ticks that run the whole detector pipeline one after
\* the other.
NextTiming ==
  \/ FullyStopped /\ ~history.stopped /\ StartMonitoring
  \/ WaitForNodeReady
  \/ RetryDelay
  \/ GetNodeInfo
  \/ GetRecentBlockTimes
  \/ isMonitoring /\ RoomToTick(TimingTicks, 1) /\ PerformSecurityChecks
  \/ SurgeFetch
  \/ SurgeGetChainTips
  \/ TimingGetRecentBlocks
  \/ GetMempoolInfo

SpecTiming == Init /\ [][NextTiming]_vars

\* callWithRetry from attempt on (part_007:144-180), on a node whose call
\* number i answers answers[i]: 0 is a result, anything else the code of
\* the error rpc.call throws.  It gives the number of calls made and the
\* error thrown (0 when a result is returned).
RECURSIVE callWithRetryFrom(_, _)
callWithRetryFrom(answers, attempt) ==
  IF answers[attempt] = 0 THEN [calls |-> attempt, error |-> 0]
  ELSE IF attempt = maxRetries
  THEN [calls |-> attempt, error |-> answers[attempt]]
  ELSE IF answers[attempt] = AuthenticationFailed
  THEN [calls |-> attempt, error |-> answers[attempt]]
  ELSE callWithRetryFrom(answers, attempt + 1)

callWithRetry(answers) == callWithRetryFrom(answers, 1)

\* What the node answers to one call in SpecRetry.
RetryAnswers == {0, ConnectionRefused, AuthenticationFailed}

\* One callWithRetry call of the data source; the answers and the outcome
\* are recorded in last.arg.
CallWithRetry == \E answers \in [1..maxRetries -> RetryAnswers] :
  /\ ReturnsWith("callWithRetry",
                 [answers |-> answers, outcome |-> callWithRetry(answers)],
                 IF callWithRetry(answers).error = 0 THEN "returned"
                 ELSE "thrown", <<>>)
  /\ UNCHANGED <<enabled, isMonitoring, monitoringInterval, timers, alerts,
                 metrics, baselines, calcs, ticks, nextId, history>>

RetryWaitForNodeReady ==
  WaitForNodeReadyOf({ConnectionRefused, AuthenticationFailed})

\* SpecRetry: one start and one stop on a node that answers, refuses the
\* connection or rejects the credentials, and callWithRetry calls.
NextRetry ==
  \/ FullyStopped /\ ~history.stopped /\ StartMonitoring
  \/ isMonitoring /\ StopMonitoring
  \/ RetryWaitForNodeReady
  \/ RetryDelay
  \/ GetNodeInfo
  \/ GetRecentBlockTimes
  \/ CallWithRetry

SpecRetry == Init /\ [][NextRetry]_vars

\* One start and one stop, and recalculations that overlap each other and
\* the computation of the start.
NextBaseline ==
  \/ FullyStopped /\ ~history.stopped /\ StartMonitoring
  \/ isMonitoring /\ StopMonitoring
  \/ RoomToRecalculate(BaselineCalcs) /\ PostRecalculate
  \/ WaitForNodeReady
  \/ RetryDelay
  \/ BaselineGetNodeInfo
  \/ BaselineGetRecentBlockTimes

SpecBaseline == Init /\ [][NextBaseline]_vars

(***************************************************************************)
(* WebSocket clients come, subscribe and go (part_010:185-307).            *)
(***************************************************************************)
ClientIds == 1..MaxClients

\* wss.on('connection'): the socket joins wss.clients and is sent the
\* initial status; it has no subscriptions property yet.
Connection == \E c \in ClientIds \ DOMAIN clients :
  /\ clients' = [d \in DOMAIN clients \cup {c} |->
                   IF d = c
                   THEN [readyState |-> "OPEN", subscriptions |-> Null,
                         received |-> <<Message("initial_status", 0)>>]
                   ELSE clients[d]]
  /\ last' = Ran("connection", "void", <<>>)
  /\ UNCHANGED <<enabled, isMonitoring, monitoringInterval, timers, alerts,
                 metrics, baselines, calcs, ticks, nextId, history>>

\* What a 'subscribe' message carries as data.subscriptions: nothing, or
\* the list with the type of the alert broadcast.
SubscribeLists == {Null, Some({"new_alert"})}

\* ws.on('message'), case 'subscribe' (part_010:220-227), for a message
\* of one of the clients cs.
SubscribeOf(cs) == \E c \in cs : \E subscriptions \in SubscribeLists :
  /\ clients[c].readyState = "OPEN"
  /\ clients' = [clients EXCEPT
                   ![c].subscriptions = IF subscriptions = Null
                                        THEN Some(defaultSubscriptions)
                                        ELSE subscriptions,
                   ![c].received =
                     Append(@, Message("subscription_confirmed", 0))]
  /\ last' = Ran("subscribe", "void", <<>>)
  /\ UNCHANGED <<enabled, isMonitoring, monitoringInterval, timers, alerts,
                 metrics, baselines, calcs, ticks, nextId, history>>

\* The clients that have not subscribed yet.
Unsubscribed == {c \in DOMAIN clients : clients[c].subscriptions = Null}

\* SpecClients: every client subscribes at most once.
Subscribe == SubscribeOf(Unsubscribed)

\* The client goes away: its socket is no longer OPEN (the ws library
\* drops it from wss.clients once the closing handshake is over, which
\* no broadcast can tell from a socket that is closing).
Close == \E c \in DOMAIN clients :
  /\ clients[c].readyState = "OPEN"
  /\ clients' = [clients EXCEPT ![c].readyState = "CLOSING"]
  /\ last' = Ran("close", "void", <<>>)
  /\ UNCHANGED <<enabled, isMonitoring, monitoringInterval, timers, alerts,
                 metrics, baselines, calcs, ticks, nextId, history>>

\* SpecClients: one start, ticks of the syncing node of SpecLedger that do
\* not overlap, and WebSocket clients that connect, subscribe and leave.
NextClients ==
  \/ FullyStopped /\ ~history.stopped /\ StartMonitoring
  \/ WaitForNodeReady
  \/ RetryDelay
  \/ GetNodeInfo
  \/ GetRecentBlockTimes
  \/ isMonitoring /\ RoomToTick(ClientTicks, 1) /\ PerformSecurityChecks
  \/ LedgerFetch
  \/ Connection
  \/ Subscribe
  \/ Close

SpecClients == Init /\ [][NextClients]_vars

(***************************************************************************)
(* Properties.                                                             *)
(***************************************************************************)
AckOps == {"acknowledgeAlert", "POST /alerts/:alertId/acknowledge"}
InLedger(als, alertId) == \E i \in 1..Len(als) : als[i].id = alertId
\* The number of alerts created so far.
Appended == nextId - 1

\* C1: the ledger never holds more than LedgerCapacity alerts; it holds
\* min(appended, capacity) of them, and they are the most recently appended
\* ones, most recent first (ids are handed out in creation order).
C1_LedgerKeepsMostRecent ==
  /\ Len(alerts) <= LedgerCapacity
  /\ Len(alerts) = Min(Appended, LedgerCapacity)
  /\ \A i \in 1..Len(alerts) : alerts[i].id = nextId - i

\* More alerts than the capacity have been appended, the last of them by
\* the tick that just ran, and an unacknowledged one has been evicted.
C1_Witness ==
  /\ Appended > LedgerCapacity
  /\ Len(alerts) = LedgerCapacity
  /\ last.op = "fetch"
  /\ \A i \in 1..Len(alerts) : ~alerts[i].acknowledged

\* C2: a tick whose fetch is rejected appends exactly one CRITICAL
\* SYSTEM_ERROR alert, emits its alert event and nothing else, touches no
\* ring buffer, and leaves the loop as it was, so that later ticks run.
C2_FailedTickOneSystemError == [][
  (last'.op = "fetch" /\ last'.ret = "rejected") =>
    /\ nextId' = nextId + 1
    /\ alerts' = SliceHead(<<[id |-> nextId, type |-> "SYSTEM_ERROR",
                              severity |-> "CRITICAL", data |-> Null,
                              acknowledged |-> FALSE]>> \o alerts,
                           LedgerCapacity)
    /\ last'.emitted = <<Event("alert", nextId)>>
    /\ UNCHANGED <<metrics, baselines, isMonitoring, monitoringInterval,
                   timers>>
  ]_vars

\* Three ticks: the first ran its detectors (alerts 1 and 2), the second
\* failed and left the one SYSTEM_ERROR (alert 3), the third has just run
\* its detectors again (alerts 4 and 5).
C2_Witness ==
  /\ history.ticks = 3
  /\ last.op = "fetch"
  /\ Len(alerts) = 3
  /\ alerts[3] = [id |-> 3, type |-> "SYSTEM_ERROR", severity |-> "CRITICAL",
                  data |-> Null, acknowledged |-> FALSE]
  /\ alerts[2].type = "LOW_NODE_COUNT"
  /\ alerts[1].type = "MEMPOOL_FLOOD"
  /\ alerts[1].id = 5

\* C3: from the return of stopMonitoring until startMonitoring is called
\* again, no timer callback gets past the guard of performSecurityChecks.
C3_NoTickAfterStop == [][
  history.stopped => history'.ticks = history.ticks
  ]_vars

\* stopMonitoring was called while startMonitoring awaited the baselines;
\* the start then set its interval, which has just fired and been ignored.
C3_Witness ==
  /\ history.stopped
  /\ timers # {}
  /\ last.op = "performSecurityChecks"
  /\ last.ret = "not monitoring"

\* C4: startMonitoring while isMonitoring is true, and stopMonitoring while
\* it is false, change nothing and emit nothing; the HTTP routes answer 409.
C4_RedundantStartStop == [][
  /\ (last'.op \in {"startMonitoring", "POST /start"} /\ isMonitoring) =>
       /\ UNCHANGED <<isMonitoring, monitoringInterval, timers, alerts,
                      metrics, baselines, calcs, ticks, nextId>>
       /\ last'.emitted = <<>>
       /\ last'.op = "POST /start" => last'.ret = "409"
  /\ (last'.op \in {"stopMonitoring", "POST /stop"} /\ ~isMonitoring) =>
       /\ UNCHANGED <<isMonitoring, monitoringInterval, timers, alerts,
                      metrics, baselines, calcs, ticks, nextId>>
       /\ last'.emitted = <<>>
       /\ last'.op = "POST /stop" => last'.ret = "409"
  ]_vars

\* startMonitoring was called while the loop was running.
C4_Witness ==
  /\ last.op = "startMonitoring"
  /\ last.ret = "already monitoring"
  /\ monitoringInterval # NoTimer
  /\ Cardinality(timers) = 1

\* The severities of the unacknowledged alerts among the StatusWindow most
\* recent ledger entries.
RecentUnacknowledged ==
  {alerts[i].severity : i \in {j \in 1..Len(alerts) :
                                 j <= StatusWindow /\ ~alerts[j].acknowledged}}

\* C5: while monitoring, the overall status is the highest severity among
\* the unacknowledged alerts of the most recent StatusWindow entries.
C5_StatusIsHighestUnacknowledged ==
  isMonitoring =>
    getOverallStatus =
      IF "CRITICAL" \in RecentUnacknowledged THEN "CRITICAL_ALERT"
      ELSE IF "HIGH" \in RecentUnacknowledged THEN "HIGH_ALERT"
      ELSE IF "MEDIUM" \in RecentUnacknowledged THEN "MEDIUM_ALERT"
      ELSE "SECURE"

\* A CRITICAL and a HIGH alert are unacknowledged in the window.
C5_Witness ==
  /\ isMonitoring
  /\ {"CRITICAL", "HIGH"} \subseteq RecentUnacknowledged
  /\ getOverallStatus = "CRITICAL_ALERT"

\* C6 as stated: the status is OFFLINE whenever no interval is scheduled,
\* and not OFFLINE whenever one is.
C6_OfflineIffNoTimer ==
  /\ timers = {} => getStatus.status = "OFFLINE"
  /\ timers # {} => getStatus.status # "OFFLINE"

\* C6 amended: the status is OFFLINE exactly while isMonitoring is false,
\* that is before the first start and from stopMonitoring until the next
\* startMonitoring call; it is not OFFLINE from the moment startMonitoring
\* is entered, baseline computation included, nor after a failed tick.
C6_OfflineIffNotMonitoring ==
  /\ ~isMonitoring => getStatus.status = "OFFLINE"
  /\ history.stopped => getStatus.status = "OFFLINE"
  /\ isMonitoring => getStatus.status \in
       {"SECURE", "MEDIUM_ALERT", "HIGH_ALERT", "CRITICAL_ALERT"}
  /\ (PendingStarts > 0 /\ ~history.stopped) => getStatus.status # "OFFLINE"
  /\ (last.op = "fetch" /\ last.ret = "rejected" /\ isMonitoring) =>
       getStatus.status = "CRITICAL_ALERT"

\* The first start is still computing the baselines, no interval is set,
\* and the status is not OFFLINE.
C6_Witness ==
  /\ timers = {}
  /\ PendingStarts = 1
  /\ isMonitoring
  /\ getStatus.status = "SECURE"

\* C7 as stated: acknowledging an alert of the ledger sets its flag and
\* returns true, and acknowledging it again returns true, changes nothing
\* and emits nothing.
C7_SecondAcknowledgeSilent == [][
  (last'.op \in AckOps /\ InLedger(alerts, last'.arg)) =>
    LET i == CHOOSE j \in 1..Len(alerts) : alerts[j].id = last'.arg IN
    /\ last'.ret \in {"true", "200"}
    /\ alerts' = [alerts EXCEPT ![i].acknowledged = TRUE]
    /\ alerts[i].acknowledged => last'.emitted = <<>>
  ]_vars

\* C8: acknowledging an id that is not in the ledger returns false (404 over
\* HTTP), emits nothing and changes nothing.
C8_UnknownIdNotFound == [][
  (last'.op \in AckOps /\ ~InLedger(alerts, last'.arg)) =>
    /\ last'.ret = (IF last'.op = "acknowledgeAlert" THEN "false" ELSE "404")
    /\ last'.emitted = <<>>
    /\ UNCHANGED <<enabled, isMonitoring, monitoringInterval, timers, alerts,
                   metrics, baselines, calcs, ticks, nextId, history>>
  ]_vars

\* The HTTP route has answered 404 for an alert that was evicted from a
\* full ledger.
C8_Witness ==
  /\ last.op = "POST /alerts/:alertId/acknowledge"
  /\ last.ret = "404"
  /\ last.arg < nextId
  /\ Len(alerts) = LedgerCapacity

\* C9: an acknowledge changes the acknowledged flag of at most one alert
\* and nothing else.
C9_AcknowledgeFrame == [][
  last'.op \in AckOps =>
    /\ Len(alerts') = Len(alerts)
    /\ \A i \in 1..Len(alerts) :
         alerts'[i] = [alerts[i] EXCEPT !.acknowledged = alerts'[i].acknowledged]
    /\ Cardinality({i \in 1..Len(alerts) : alerts'[i] # alerts[i]}) <= 1
    /\ UNCHANGED <<isMonitoring, monitoringInterval, timers, metrics,
                   baselines, nextId>>
  ]_vars

\* An alert has just been acknowledged while another alert of the same type
\* stays unacknowledged.
C9_Witness ==
  /\ last.op \in AckOps
  /\ last.ret \in {"true", "200"}
  /\ \E i, j \in 1..Len(alerts) :
       /\ alerts[i].id = last.arg
       /\ alerts[i].acknowledged
       /\ j # i
       /\ alerts[j].type = alerts[i].type
       /\ ~alerts[j].acknowledged

\* C10: an alert enters the ledger unacknowledged, and an acknowledged
\* alert stays acknowledged for as long as it is in the ledger.
C10_AcknowledgedIsStable == [][
  \A i \in 1..Len(alerts') :
    IF InLedger(alerts, alerts'[i].id)
    THEN \A j \in 1..Len(alerts) :
           (alerts[j].id = alerts'[i].id /\ alerts[j].acknowledged)
             => alerts'[i].acknowledged
    ELSE ~alerts'[i].acknowledged
  ]_vars

\* A tick has just appended to a full ledger, and the oldest alert that
\* survived the truncation is still acknowledged.
C10_Witness ==
  /\ Appended > LedgerCapacity
  /\ alerts[LedgerCapacity].acknowledged
  /\ ~alerts[1].acknowledged
  /\ last.op = "fetch"

\* The four series of this.metrics that updateMetrics appends to.
Buffers == {"hashRate", "difficulty", "mempool", "networkNodes"}
\* The continuations of a tick after its first suspension.
TickOps == {"fetch", "getChainTips", "getRecentBlocks", "getMempoolInfo"}

\* C11 as stated: no buffer exceeds maxDataPoints; a tick whose fetch
\* succeeds appends one observation to each buffer, dropping the oldest
\* beyond maxDataPoints, and nothing else changes a buffer, so that after n
\* successful ticks each buffer holds the last min(n, maxDataPoints)
\* observations, one per tick, in insertion order.
C11_BuffersOnePointPerTick == [][
  \A f \in Buffers :
    LET old == metrics[f]
        new == metrics'[f]
    IN  /\ Len(new) <= maxDataPoints
        /\ IF last'.op = "fetch" /\ last'.ret # "rejected"
           THEN /\ Len(new) >= 1
                /\ new[Len(new)].field = "value"
                /\ new = SliceTail(Append(old, new[Len(new)]), maxDataPoints)
           ELSE new = old
  ]_vars

\* The events of a given name among those a continuation emitted.
Emitted(events, name) ==
  LET Named(e) == e.name = name IN SelectSeq(events, Named)
\* The step ends a tick: one invocation fewer is in flight.
TickEnds == BagCardinality(ticks') < BagCardinality(ticks)

AlertsSentTo(client) ==
  LET IsAlert(m) == m.type = "new_alert" IN SelectSeq(client.received, IsAlert)

\* C13 as stated: every alert appended to the ledger is published as one
\* 'alert' event, and every client whose socket is open is sent that event
\* exactly once, whether or not it has subscribed and with whatever list;
\* a client whose socket is not open is sent nothing.
C13_AlertSentOnceToEveryOpenClient == [][
  LET events == Emitted(last'.emitted, "alert") IN
  /\ Len(events) = nextId' - nextId
  /\ \A i \in 1..Len(events) :
       /\ events[i].id = nextId + i - 1
       /\ \E j \in 1..Len(alerts') : alerts'[j].id = events[i].id
  /\ \A c \in DOMAIN clients :
       AlertsSentTo(clients'[c]) =
         IF clients[c].readyState = "OPEN"
         THEN AlertsSentTo(clients[c])
                \o [i \in 1..Len(events) |-> Message("new_alert", events[i].id)]
         ELSE AlertsSentTo(clients[c])
  ]_vars

\* The alerts of the ledger that the step has just created.
Created == {alerts'[i] : i \in {j \in 1..Len(alerts') : alerts'[j].id >= nextId}}
CreatedOf(type) == {a \in Created : a.type = type}
\* The types of the ratio detectors.
RatioTypes == {"HASH_RATE_SPIKE", "HASH_RATE_DROP", "DIFFICULTY_SPIKE"}
\* The difficulty of the snapshot of the tick whose fetch has just
\* succeeded, as updateMetrics recorded it.
Observed(m) == m.difficulty[Len(m.difficulty)].v

\* C14: while avgHashRate and avgDifficulty are null, no continuation of a
\* tick creates a HASH_RATE_SPIKE, HASH_RATE_DROP or DIFFICULTY_SPIKE
\* alert, and a tick whose fetch succeeded creates no SYSTEM_ERROR.
C14_ColdStartNoRatioAlerts == [][
  (last'.op \in TickOps /\ baselines.avgHashRate = Null
                        /\ baselines.avgDifficulty = Null) =>
    /\ \A a \in Created : a.type \notin RatioTypes
    /\ last'.ret # "rejected" => CreatedOf("SYSTEM_ERROR") = {}
  ]_vars

\* The baseline computation has failed, and a tick of a node of
\* difficulty 6 has run to its end without creating any alert.
C14_Witness ==
  /\ baselines.avgHashRate = Null
  /\ baselines.avgDifficulty = Null
  /\ last.op = "getMempoolInfo"
  /\ last.ret = "update"
  /\ Len(metrics.difficulty) = 1
  /\ Observed(metrics) = 6
  /\ alerts = <<>>

\* C15: with avgHashRate present, a tick whose fetch succeeds creates one
\* CRITICAL HASH_RATE_SPIKE alert when currentHashRate / avgHashRate > 5.0
\* and none otherwise: one at ratio 6, none at ratio 4 or at ratio 5.
C15_SpikeIffRatioAboveThreshold == [][
  (last'.op = "fetch" /\ last'.ret # "rejected"
                     /\ Truthy(baselines.avgHashRate)) =>
    LET currentHashRate == calculateHashRate(Observed(metrics'))
        baselineHashRate == baselines.avgHashRate[1]
        spikes == CreatedOf("HASH_RATE_SPIKE")
    IN  /\ Cardinality(spikes) =
             (IF currentHashRate * 10 > hashRateSpikeX10 * baselineHashRate
              THEN 1 ELSE 0)
        /\ \A a \in spikes : a.severity = "CRITICAL"
        /\ currentHashRate = 6 * baselineHashRate => Cardinality(spikes) = 1
        /\ currentHashRate = 5 * baselineHashRate => spikes = {}
        /\ currentHashRate = 4 * baselineHashRate => spikes = {}
  ]_vars

\* A tick at ratio 5 created no spike alert, and the next tick, at ratio
\* 6, has just created one.
C15_Witness ==
  /\ last.op = "fetch"
  /\ baselines.avgHashRate = Some(calculateHashRate(1))
  /\ Len(metrics.difficulty) = 2
  /\ metrics.difficulty[1].v = 5
  /\ metrics.difficulty[2].v = 6
  /\ [i \in 1..Len(alerts) |-> alerts[i].type] =
       <<"DIFFICULTY_SPIKE", "HASH_RATE_SPIKE", "DIFFICULTY_SPIKE">>
  /\ alerts[2].severity = "CRITICAL"

\* The positions of the chain tips that are valid forks of six blocks or
\* more.
deepForks(chainTips) ==
  {i \in 1..Len(chainTips) : /\ chainTips[i].status = "valid-fork"
                              /\ chainTips[i].branchlen >= 6}

\* C16: in a tick where the reorg detector runs, one CRITICAL
\* DEEP_REORGANIZATION alert is created if and only if some chain tip is a
\* valid fork of branch length six or more, whatever the number of such
\* tips; its forkDepth is the largest branch length among them.  Tips of
\* branch length five or less, or of another status, create none.
C16_DeepReorgIffValidForkOfSix ==
  [][last'.op = "getChainTips" =>
       LET chainTips == last'.arg
           deep == deepForks(chainTips)
           made == CreatedOf("DEEP_REORGANIZATION")
       IN  /\ Cardinality(made) = IF deep = {} THEN 0 ELSE 1
           /\ \A a \in made :
                /\ a.severity = "CRITICAL"
                /\ \E d \in deep : a.data.forkDepth = chainTips[d].branchlen
                /\ \A d \in deep : chainTips[d].branchlen <= a.data.forkDepth
  ]_vars

\* Two valid forks of 7 and 9 blocks and a headers-only tip of 12 arrived:
\* the one alert created carries forkDepth 9.
C16_Witness ==
  /\ last.op = "getChainTips"
  /\ Len(last.arg) = 3
  /\ Len(last.emitted) = 1
  /\ Len(alerts) = 1
  /\ alerts[1].type = "DEEP_REORGANIZATION"
  /\ alerts[1].severity = "CRITICAL"
  /\ alerts[1].data.forkDepth = 9

\* The number of ticks in flight in the bag b that are suspended at pc.
InFlightAt(b, pc) ==
  BagCardinality([t \in {u \in BagToSet(b) : u.pc = pc} |-> b[t]])

\* The types of the detectors check51PercentAttack runs.
AttackTypes == {"DEEP_REORGANIZATION", "FREQUENT_REORGANIZATIONS",
                "HASHRATE_SURGE", "SUSPICIOUS_BLOCK_PATTERN",
                "RAPID_BLOCK_GENERATION", "MEMPOOL_VOLATILITY"}

\* The points those detectors have pushed into the series of m.
AttackPoints(m) ==
  LET Pushed(point) == point.field \in {"hashrate", "size"}
  IN  <<SelectSeq(m.hashRate, Pushed), SelectSeq(m.mempool, Pushed)>>

\* The queries those detectors await.
AttackQueries == {"getChainTips", "getRecentBlocks", "getMempoolInfo"}

\* C17: a tick whose snapshot reports the initial synchronization, or that
\* finds baselines.avgBlockTime absent or not positive, creates none of
\* the six alerts of check51PercentAttack, pushes no point of those
\* detectors and ends with its update event before any of their queries
\* is issued; no tick of a syncing snapshot ever waits on such a query.
C17_AttackChecksSkipped == [][
  /\ (/\ last'.op = "fetch" /\ last'.ret # "rejected"
      /\ \/ last'.arg.initialblockdownload
         \/ ~RatMore(baselines.avgBlockTime, 0))
     => /\ \A a \in Created : a.type \notin AttackTypes
        /\ AttackPoints(metrics') = AttackPoints(metrics)
        /\ last'.ret = "update"
        /\ \A pc \in AttackQueries :
             InFlightAt(ticks', pc) = InFlightAt(ticks, pc)
  /\ \A t \in BagToSet(ticks') :
       t.pc \in AttackQueries => ~t.currentData.initialblockdownload
  /\ last'.op \in AttackQueries => last'.op \in {t.pc : t \in BagToSet(ticks)}
  ]_vars

\* A tick of a synced node has ended at its fetch, with its update event
\* and no alert, because two blocks out of order left avgBlockTime
\* negative.
C17_Witness ==
  /\ last.op = "fetch"
  /\ last.ret = "update"
  /\ ~last.arg.initialblockdownload
  /\ baselines.avgBlockTime.num < 0
  /\ ticks = EmptyBag
  /\ metrics.hashRate = <<Point("value", calculateHashRate(1))>>
  /\ metrics.mempool = <<Point("value", 0)>>
  /\ alerts = <<>>

\* s is an initial part of t.
IsPrefix(s, t) == Len(s) <= Len(t) /\ SubSeq(t, 1, Len(s)) = s

\* The suspension point that follows each one of a tick.
NextPc == [fetch |-> "getChainTips", getChainTips |-> "getRecentBlocks",
           getRecentBlocks |-> "getMempoolInfo",
           getMempoolInfo |-> "getMempoolInfo"]

\* C18: stopMonitoring leaves the ticks in flight, the ledger and the
\* buffers alone, and a continuation of a tick that runs after the stop
\* does what it does otherwise: the tick moves to its next suspension
\* point or ends, the alerts it creates are in the ledger and are
\* published, the points pushed so far stay in the buffers, and the tick
\* ends with its update event unless its fetch was rejected.
C18_InFlightTickCompletesAfterStop == [][
  /\ last'.op \in {"stopMonitoring", "POST /stop"} =>
       UNCHANGED <<alerts, metrics, ticks, nextId>>
  /\ (last'.op \in TickOps /\ ~isMonitoring) =>
       /\ ~isMonitoring'
       /\ IF TickEnds
          THEN /\ last'.ret \in {"update", "rejected"}
               /\ last'.ret = "rejected" =>
                    last'.op = "fetch" /\ CreatedOf("SYSTEM_ERROR") # {}
               /\ last'.ret = "update" =>
                    last'.emitted[Len(last'.emitted)] = Event("update", 0)
          ELSE /\ BagCardinality(ticks') = BagCardinality(ticks)
               /\ InFlightAt(ticks', last'.op) = InFlightAt(ticks, last'.op) - 1
               /\ InFlightAt(ticks', NextPc[last'.op])
                    = InFlightAt(ticks, NextPc[last'.op]) + 1
       /\ Len(Emitted(last'.emitted, "alert")) = nextId' - nextId
       /\ \A id \in nextId..(nextId' - 1) : InLedger(alerts', id)
       /\ \A i \in 1..Len(alerts) :
            alerts[i].id > nextId' - LedgerCapacity - 1
              => InLedger(alerts', alerts[i].id)
       /\ \A series \in Buffers :
            IsPrefix(metrics[series], metrics'[series])
       /\ last'.op = "fetch" /\ last'.ret # "rejected" =>
            Len(metrics'.difficulty) = Len(metrics.difficulty) + 1
       /\ last'.op = "getChainTips" =>
            Len(metrics'.hashRate) = Len(metrics.hashRate) + 1
  ]_vars

\* The watchdog was stopped while its only tick was waiting; after the
\* stop the tick took the deep fork reported to it into the ledger, pushed
\* its points and has just ended with its update event.
C18_Witness ==
  /\ ~isMonitoring
  /\ timers = {}
  /\ history.ticks = 1
  /\ last.op = "getMempoolInfo"
  /\ last.ret = "update"
  /\ last.emitted = <<Event("update", 0)>>
  /\ Len(metrics.mempool) = 2
  /\ Len(metrics.hashRate) = 2
  /\ \E i \in 1..Len(alerts) : alerts[i].type = "DEEP_REORGANIZATION"

\* The ids of the alerts the ticks in flight have created so far.
CreatedInFlight ==
  UNION {{t.created[k] : k \in 1..Len(t.created)} : t \in BagToSet(ticks)}

\* C19: an acknowledge that runs while a tick is suspended, at whichever
\* of its awaits, marks the alert it names if the ledger holds it and
\* changes nothing else, neither the ledger nor the tick; a continuation
\* of a tick then appends its alerts once each, unacknowledged, drops only
\* the oldest alerts, and leaves every flag of the alerts that stay as it
\* was.
C19_AcknowledgeDuringTickIsSafe == [][
  /\ (last'.op \in AckOps /\ ticks # EmptyBag) =>
       /\ UNCHANGED <<ticks, nextId, metrics>>
       /\ Len(alerts') = Len(alerts)
       /\ \A id \in CreatedInFlight :
            InLedger(alerts, id) =>
              Cardinality({i \in 1..Len(alerts') : alerts'[i].id = id}) = 1
       /\ \A i \in 1..Len(alerts) :
            /\ alerts'[i] =
                 [alerts[i] EXCEPT !.acknowledged = alerts'[i].acknowledged]
            /\ alerts'[i].acknowledged =
                 (alerts[i].acknowledged \/ alerts[i].id = last'.arg)
  /\ last'.op \in TickOps =>
       /\ Len(alerts') = Min(Len(alerts) + nextId' - nextId, LedgerCapacity)
       /\ \A i \in 1..Len(alerts') :
            /\ alerts'[i].id = nextId' - i
            /\ alerts'[i].id >= nextId => ~alerts'[i].acknowledged
            /\ alerts'[i].id < nextId =>
                 \E j \in 1..Len(alerts) : alerts[j] = alerts'[i]
  ]_vars

\* The second tick has just ended; the alert it created at its fetch was
\* acknowledged while the tick was in flight and is still acknowledged
\* after the tick appended another alert to the full ledger.
C19_Witness ==
  /\ last.op = "getMempoolInfo"
  /\ last.ret = "update"
  /\ history.ticks = 2
  /\ Appended > LedgerCapacity
  /\ Len(alerts) = LedgerCapacity
  /\ alerts[1].type = "DEEP_REORGANIZATION" /\ ~alerts[1].acknowledged
  /\ alerts[2].type = "LOW_NODE_COUNT" /\ alerts[2].acknowledged
  /\ alerts[2].id = nextId - 2

\* C20: a status query changes nothing of the watchdog, however often it
\* is made; it answers with the first min(StatusWindow, size) entries of
\* the ledger, in ledger order and as they are, with alertCount equal to
\* the size of the ledger, and with isMonitoring and the baselines as they
\* are.
C20_GetStatusIsPure == [][
  last'.op = "GET /status" =>
    LET status == last'.arg IN
    /\ UNCHANGED <<enabled, isMonitoring, monitoringInterval, timers, alerts,
                   metrics, baselines, calcs, ticks, nextId>>
    /\ Len(status.recentAlerts) = Min(StatusWindow, Len(alerts))
    /\ Len(status.recentAlerts) <= StatusWindow
    /\ \A i \in 1..Len(status.recentAlerts) :
         status.recentAlerts[i] = alerts[i]
    /\ status.alertCount = Len(alerts)
    /\ status.isMonitoring = isMonitoring
    /\ status.baselines = baselines
  ]_vars

\* The status of a running watchdog was asked for while the ledger held
\* more alerts than a status shows, one of those shown being acknowledged.
C20_Witness ==
  /\ last.op = "GET /status"
  /\ isMonitoring
  /\ Len(alerts) > StatusWindow
  /\ last.arg.alertCount = Len(alerts)
  /\ Len(last.arg.recentAlerts) = StatusWindow
  /\ last.arg.recentAlerts[1] = alerts[1]
  /\ alerts[1].acknowledged

\* The limit a query asks for.
LimitOf(query) ==
  IF query.limit = Null THEN defaultLimit ELSE query.limit[1]

CalcOps == {"waitForNodeReady", "retryDelay", "getNodeInfo",
            "getRecentBlockTimes"}

\* b is the complete result of one computation on the node information
\* info.
ResultOf(b, info) ==
  /\ b.avgHashRate = Some(calculateHashRate(info.difficulty))
  /\ b.avgDifficulty = Some(info.difficulty)
  /\ b.avgMempoolSize = Some(info.mempoolSize)
  /\ b.avgBlockTime.den # 0
  /\ b.lastCalculated # Null

\* C22: the baselines only change in the last step of a calculateBaselines
\* call that succeeds, and then all of them at once, to the result of that
\* call alone; a call that fails at any of its steps leaves them as they
\* are.  They are therefore always the initial ones or the complete result
\* of one call.
C22_BaselinesReplacedAsAWhole == [][
  /\ baselines' # baselines =>
       /\ last'.op = "getRecentBlockTimes"
       /\ \E c \in CalcsAt("getRecentBlockTimes") :
            /\ calcs' = BagRemove(calcs, c)
            /\ ResultOf(baselines', c.info)
  /\ last'.op = "getRecentBlockTimes" =>
       \E c \in CalcsAt("getRecentBlockTimes") : ResultOf(baselines', c.info)
  /\ (last'.op \in CalcOps /\ last'.op # "getRecentBlockTimes") =>
       baselines' = baselines
  /\ \/ baselines' = initializeBaselines
     \/ \E info \in BaselineNodeInfos : ResultOf(baselines', info)
  ]_vars

\* A recalculation has just left the baselines at the complete result of
\* its own computation, on difficulty 1 and one interval of 30 seconds,
\* while another computation is still under way.
C22_Witness ==
  /\ last.op = "getRecentBlockTimes"
  /\ last.ret = "200"
  /\ calcs # EmptyBag
  /\ ResultOf(baselines, [difficulty |-> 1, mempoolSize |-> 10, blocks |-> 100])
  /\ baselines.avgBlockTime = calculateAverage(<<30>>)

\* The entry points that begin a baseline computation.
CalcCallers == {"startMonitoring", "POST /start", "POST /recalculate-baselines"}

\* C23: when every liveness call of a baseline computation fails, the
\* computation makes exactly maxBaselineRetries attempts: the attempts are
\* numbered from 1, a failed attempt before the last is followed by the
\* delay and the delay by the next attempt, and the failure of attempt
\* maxBaselineRetries ends the computation without a delay, without
\* touching the baselines and without raising: a pending startMonitoring
\* then sets a new interval, publishes 'started' and leaves isMonitoring
\* as it is (true unless stopMonitoring was called meanwhile).
C23_GivesUpAfterMaxAttempts == [][
  /\ \A c \in BagToSet(calcs') :
       /\ c.pc = "waitForNodeReady" => c.attempt \in 1..maxBaselineRetries
       /\ c.pc = "retryDelay" => c.attempt \in 1..(maxBaselineRetries - 1)
  /\ (last'.op \in CalcCallers /\ last'.ret = "pending") =>
       \E caller \in CalcCallers :
         calcs' = BagAdd(calcs, Calc(caller, "waitForNodeReady", 1, NoInfo))
  /\ last'.op = "retryDelay" =>
       \E c \in CalcsAt("retryDelay") :
         calcs' = BagAdd(BagRemove(calcs, c),
                         [c EXCEPT !.pc = "waitForNodeReady",
                                   !.attempt = c.attempt + 1])
  /\ (last'.op = "waitForNodeReady" /\ last'.arg # 0) =>
       \E c \in CalcsAt("waitForNodeReady") :
         /\ baselines' = baselines
         /\ isMonitoring' = isMonitoring
         /\ IF c.attempt < maxBaselineRetries
            THEN /\ calcs' = BagAdd(BagRemove(calcs, c),
                                    [c EXCEPT !.pc = "retryDelay"])
                 /\ last'.ret = "pending"
                 /\ last'.emitted = <<>>
                 /\ UNCHANGED <<timers, monitoringInterval>>
            ELSE /\ c.attempt = maxBaselineRetries
                 /\ calcs' = BagRemove(calcs, c)
                 /\ IF c.caller = "startMonitoring"
                    THEN /\ monitoringInterval' \in timers' \ timers
                         /\ last'.ret = "started"
                         /\ last'.emitted = <<Event("started", 0)>>
                         /\ ~history.stopped => isMonitoring'
                    ELSE /\ last'.ret = "200"
                         /\ UNCHANGED <<timers, monitoringInterval>>
  ]_vars

\* startMonitoring has just returned after the last liveness call was
\* refused: the loop is running on its interval and the baselines are the
\* initial ones.
C23_Witness ==
  /\ last.op = "waitForNodeReady"
  /\ last.arg = ConnectionRefused
  /\ last.ret = "started"
  /\ isMonitoring
  /\ monitoringInterval \in timers
  /\ baselines = initializeBaselines
  /\ calcs = EmptyBag

\* C24: a call that fails with AuthenticationFailed is not attempted again:
\* callWithRetry makes no call after the first answer 401, and the
\* baseline computation whose liveness call fails with 401 ends there
\* instead of waiting for the next attempt.
C24_AuthenticationFailedNeverRetried == [][
  /\ last'.op = "callWithRetry" =>
       \A i \in 1..maxRetries :
         last'.arg.answers[i] = AuthenticationFailed =>
           last'.arg.outcome.calls <= i
  /\ (last'.op = "waitForNodeReady" /\ last'.arg = AuthenticationFailed) =>
       \E c \in CalcsAt("waitForNodeReady") : calcs' = BagRemove(calcs, c)
  ]_vars

\* C25: an exception thrown by a detector stays in the tick.  It changes
\* neither isMonitoring nor the interval; the promise of the tick does not
\* reject; an exception of a detector that analyzeSecurityThreats calls
\* directly ends the tick with a SYSTEM_ERROR alert at the head of the
\* ledger and no update event; an exception of a 51% detector is caught by
\* that detector, and the tick goes on to its next suspension point or
\* ends with its update event.
C25_DetectorExceptionStaysInTick == [][
  (last'.op \in TickOps /\ last'.arg # {}) =>
    /\ UNCHANGED <<isMonitoring, monitoringInterval, timers>>
    /\ last'.ret \in {"caught", "pending", "update"}
    /\ \E t \in TicksAt(last'.op) :
         IF last'.op = "fetch"
         THEN /\ ticks' = BagRemove(ticks, t)
              /\ last'.ret = "caught"
              /\ alerts' # <<>>
              /\ alerts'[1].type = "SYSTEM_ERROR"
              /\ alerts'[1].id = nextId' - 1
              /\ nextId' > nextId
              /\ Emitted(last'.emitted, "update") = <<>>
              /\ Emitted(last'.emitted, "alert") # <<>>
         ELSE IF last'.op = "getMempoolInfo"
         THEN /\ ticks' = BagRemove(ticks, t)
              /\ last'.ret = "update"
              /\ Emitted(last'.emitted, "update") # <<>>
         ELSE /\ \E t2 \in BagToSet(ticks') :
                   /\ t2.pc = NextPc[t.pc]
                   /\ t2.currentData = t.currentData
                   /\ IsPrefix(t.created, t2.created)
                   /\ ticks' = BagAdd(BagRemove(ticks, t), t2)
              /\ last'.ret = "pending"
  ]_vars

\* The second tick has begun, on the interval that is still set, after a
\* detector of the first one threw and the first tick ended with its
\* SYSTEM_ERROR alert.
C25_Witness ==
  /\ last.op = "performSecurityChecks"
  /\ last.ret = "pending"
  /\ history.ticks = 2
  /\ isMonitoring
  /\ monitoringInterval \in timers
  /\ BagCardinality(ticks) = 1
  /\ alerts # <<>>
  /\ alerts[1].type = "SYSTEM_ERROR"

\* C26: at most one interval is live, and one is live only while
\* isMonitoring is true, whatever the order of the calls of startMonitoring
\* and stopMonitoring and of the ends of the baseline computations.
C26_AtMostOneTimerWhileMonitoring ==
  /\ Cardinality(timers) <= 1
  /\ timers # {} => isMonitoring

\* C27: no two performSecurityChecks invocations are in flight at the same
\* time.
C27_NoTwoTicksInFlight == BagCardinality(ticks) <= 1

\* The continuations of a tick in which only detectors run.
DetectorOps == {"getChainTips", "getRecentBlocks", "getMempoolInfo"}

\* C28: the detectors change neither the buffers nor the baselines (the
\* thresholds are constants): the continuations in which only detectors
\* run leave both alone, and the one that begins with updateMetrics leaves
\* the buffers as updateMetrics left them.
C28_DetectorsSideEffectFree == [][
  /\ last'.op \in DetectorOps =>
       /\ metrics' = metrics
       /\ baselines' = baselines
  /\ (last'.op = "fetch" /\ last'.ret # "rejected") =>
       /\ metrics' = updateMetrics(metrics, last'.arg)
       /\ baselines' = baselines
  ]_vars

\* C29: once calculateBaselines has replaced the baselines, avgBlockTime is
\* greater than 0.
C29_AvgBlockTimePositive ==
  baselines.lastCalculated # Null =>
    /\ baselines.avgBlockTime.den > 0
    /\ baselines.avgBlockTime.num > 0

\* The average of the numbers the points of a series carry.
SampleAverage(points) ==
  calculateAverage([i \in 1..Len(points) |-> points[i].v])

\* C30: when checkHashrateAnomalies has run and the hash-rate buffer holds
\* five samples or more, a CRITICAL HASHRATE_SURGE alert is created if and
\* only if the average of the last three samples of the buffer is more
\* than three times the average of the samples before them.
C30_SurgeIffLastThreeAboveTripleEarlier == [][
  (last'.op = "getChainTips" /\ Len(metrics'.hashRate) >= 5) =>
    LET series == metrics'.hashRate
        recentAvg == SampleAverage(SliceTail(series, 3))
        baselineAvg == SampleAverage(SubSeq(series, 1, Len(series) - 3))
        made == CreatedOf("HASHRATE_SURGE")
    IN  /\ made # {} <=> RatGreater(recentAvg, 3, baselineAvg)
        /\ \A a \in made : a.severity = "CRITICAL"
  ]_vars

\* C31: when checkMempoolVolatility has run on an answer of the node and
\* the mempool buffer holds five samples or more, a HIGH MEMPOOL_VOLATILITY
\* alert is created if and only if the average of the last two samples of
\* the buffer is more than five times the average of the samples before
\* them and that earlier average is more than 10.
C31_VolatilityIffLastTwoAboveFiveTimesEarlier == [][
  (/\ last'.op = "getMempoolInfo"
   /\ last'.arg # Null
   /\ Len(metrics'.mempool) >= 5) =>
    LET series == metrics'.mempool
        recentAvg == SampleAverage(SliceTail(series, 2))
        baselineAvg == SampleAverage(SubSeq(series, 1, Len(series) - 2))
        made == CreatedOf("MEMPOOL_VOLATILITY")
    IN  /\ made # {} <=> (/\ RatGreater(recentAvg, 5, baselineAvg)
                          /\ RatMore(baselineAvg, 10))
        /\ \A a \in made : a.severity = "HIGH"
  ]_vars

\* The types of the alerts of checkBlockTimingAnomalies.
TimingTypes == {"SUSPICIOUS_BLOCK_PATTERN", "RAPID_BLOCK_GENERATION"}

\* The sum of the first n elements of s, or of all of them.
SumOfFirst(s, n) == SeqSum(SubSeq(s, 1, Min(n, Len(s))))

\* C32: checkBlockTimingAnomalies creates at most one alert.  With gaps the
\* positive intervals between the blocks fetched, newest first: when ten
\* blocks were fetched and some gap is longer than 1200 seconds and the
\* five most recent gaps average less than 30 seconds, the alert is a
\* CRITICAL SUSPICIOUS_BLOCK_PATTERN; otherwise, when ten blocks were
\* fetched and the gaps, of which there is one at least, average less than
\* 30 seconds, it is a HIGH RAPID_BLOCK_GENERATION; otherwise there is
\* none, in particular when fewer than ten blocks were fetched.
C32_BlockTimingAtMostOneAlert == [][
  last'.op = "getRecentBlocks" =>
    LET times == last'.arg
        gaps == positiveIntervals(times)
        made == {a \in Created : a.type \in TimingTypes}
        enough == Len(times) >= 10 /\ Len(gaps) > 0
        burst == /\ enough
                 /\ \E i \in 1..Len(gaps) : gaps[i] > 1200
                 /\ SumOfFirst(gaps, 5) < 30 * Min(5, Len(gaps))
        rapid == /\ enough
                 /\ ~burst
                 /\ SeqSum(gaps) < 30 * Len(gaps)
    IN  /\ Cardinality(made) <= 1
        /\ Created = made
        /\ burst <=> \E a \in made : /\ a.type = "SUSPICIOUS_BLOCK_PATTERN"
                                     /\ a.severity = "CRITICAL"
        /\ rapid <=> \E a \in made : /\ a.type = "RAPID_BLOCK_GENERATION"
                                     /\ a.severity = "HIGH"
  ]_vars

\* Ten blocks arrived, the five newest ten seconds apart after a gap of
\* 1300 seconds: the one alert created is the CRITICAL one.
C32_Witness ==
  /\ last.op = "getRecentBlocks"
  /\ last.arg = BlocksOf(Run(5, 10) \o <<1300>> \o Run(3, 10))
  /\ alerts # <<>>
  /\ alerts[1].type = "SUSPICIOUS_BLOCK_PATTERN"
  /\ alerts[1].severity = "CRITICAL"
  /\ \A i \in 1..Len(alerts) : alerts[i].type # "RAPID_BLOCK_GENERATION"

\* The positions of the chain tips that are valid forks of two blocks or
\* more.
shallowForks(chainTips) ==
  {i \in 1..Len(chainTips) : /\ chainTips[i].status = "valid-fork"
                              /\ chainTips[i].branchlen >= 2}

\* C33: in a tick where the reorg detector runs, one HIGH
\* FREQUENT_REORGANIZATIONS alert is created if and only if three chain
\* tips or more are valid forks of branch length two or more.  A chain-tips
\* query that fails answers with no tips: no reorg alert and no
\* SYSTEM_ERROR alert is created, checkHashrateAnomalies pushes its sample
\* and the tick goes on to the block lookups of checkBlockTimingAnomalies.
C33_FrequentReorgsIffThreeForks ==
  [][last'.op = "getChainTips" =>
       LET chainTips == last'.arg
           made == CreatedOf("FREQUENT_REORGANIZATIONS")
       IN  /\ Cardinality(made) =
                IF Cardinality(shallowForks(chainTips)) >= 3 THEN 1 ELSE 0
           /\ \A a \in made : a.severity = "HIGH"
           /\ CreatedOf("SYSTEM_ERROR") = {}
           /\ chainTips = <<>> =>
                /\ CreatedOf("DEEP_REORGANIZATION") = {}
                /\ made = {}
                /\ Len(metrics'.hashRate) = Len(metrics.hashRate) + 1
                /\ \E t \in TicksAt("getChainTips") :
                     ticks' = BagAdd(BagRemove(ticks, t),
                                     [t EXCEPT !.pc = "getRecentBlocks"])
  ]_vars

\* Four valid forks of two to four blocks arrived: the one alert created
\* is the HIGH one.
C33_Witness ==
  /\ last.op = "getChainTips"
  /\ Len(last.arg) = 4
  /\ Len(last.emitted) = 1
  /\ alerts # <<>>
  /\ alerts[1].type = "FREQUENT_REORGANIZATIONS"
  /\ alerts[1].severity = "HIGH"
  /\ \A i \in 1..Len(alerts) : alerts[i].type # "DEEP_REORGANIZATION"

\* C34: a tick whose snapshot fetch fails changes the ledger only.  Its
\* first step, up to the await on the sub-queries, changes nothing of the
\* engine; the step in which the fetch is rejected removes that tick from
\* the ticks in flight, adds to the ledger, and leaves the buffers, the
\* baselines, isMonitoring, the interval and the computations in flight as
\* they are: a loop that was running is still running.
C34_FailedFetchChangesLedgerOnly == [][
  /\ (last'.op = "performSecurityChecks" /\ last'.ret = "pending") =>
       /\ ticks' = BagAdd(ticks, Tick("fetch", NoData, <<>>))
       /\ UNCHANGED <<alerts, nextId, metrics, baselines, isMonitoring,
                      monitoringInterval, timers, calcs, enabled>>
  /\ (last'.op = "fetch" /\ last'.ret = "rejected") =>
       /\ ticks' = BagRemove(ticks, Tick("fetch", NoData, <<>>))
       /\ BagCardinality(ticks') = BagCardinality(ticks) - 1
       /\ Len(alerts') >= Len(alerts)
       /\ UNCHANGED <<metrics, baselines, isMonitoring, monitoringInterval,
                      timers, calcs, enabled>>
       /\ (isMonitoring /\ monitoringInterval \in timers) =>
            (isMonitoring' /\ monitoringInterval' \in timers')
  ]_vars

\* The second tick has just failed at its fetch while the loop runs: the
\* buffers hold the one observation of the first tick, the baselines are
\* those that were computed, and the interval is still set.
C34_Witness ==
  /\ last.op = "fetch"
  /\ last.ret = "rejected"
  /\ history.ticks = 2
  /\ ticks = EmptyBag
  /\ isMonitoring
  /\ monitoringInterval \in timers
  /\ Len(metrics.hashRate) = 1
  /\ baselines.lastCalculated # Null
  /\ alerts # <<>>
  /\ alerts[1].type = "SYSTEM_ERROR"

\* SpecLive: one start and one stop; the ticks, two of which may be in
\* flight at once, run the whole detector pipeline on a quiet synced node
\* without forks, or fail at their fetch.  Every call to
\* the node that is outstanding eventually returns or fails (rpc.call
\* carries a timeout, part_007:71-134), and the delay between two attempts
\* of waitForNodeReady eventually elapses (setTimeout, part_006:171).
LiveTicks == 2

LiveFetch == \E t \in TicksAt("fetch") :
  \/ FetchFails(t)
  \/ \E currentData \in SurgeSnapshots : FetchStep(t, currentData, 0)

LiveGetChainTips == \E t \in TicksAt("getChainTips") :
  \E chainTips \in SurgeChainTips : ChainTipsStep(t, chainTips, 0)

LiveGetMempoolInfo == \E t \in TicksAt("getMempoolInfo") :
  \E mempoolInfo \in MempoolInfos : MempoolInfoStep(t, mempoolInfo, 0)

NextLive ==
  \/ FullyStopped /\ ~history.stopped /\ StartMonitoring
  \/ isMonitoring /\ StopMonitoring
  \/ WaitForNodeReady
  \/ RetryDelay
  \/ GetNodeInfo
  \/ GetRecentBlockTimes
  \/ isMonitoring /\ RoomToTick(LiveTicks, 2) /\ PerformSecurityChecks
  \/ LiveFetch
  \/ LiveGetChainTips
  \/ GetRecentBlocks
  \/ LiveGetMempoolInfo

\* The invocations in flight: every continuation changes them.
inFlight == <<calcs, ticks>>

SpecLive ==
  /\ Init
  /\ [][NextLive]_vars
  /\ WF_inFlight(WaitForNodeReady)
  /\ WF_inFlight(RetryDelay)
  /\ WF_inFlight(GetNodeInfo)
  /\ WF_inFlight(GetRecentBlockTimes)
  /\ WF_inFlight(LiveFetch)
  /\ WF_inFlight(LiveGetChainTips)
  /\ WF_inFlight(GetRecentBlocks)
  /\ WF_inFlight(LiveGetMempoolInfo)

\* C35: when every outstanding call eventually returns or fails, the ticks
\* in flight eventually finish and the baseline computations in flight (the
\* startMonitoring calls that have not returned) eventually return; and a
\* tick leaves the ticks in flight only with its update event as the last
\* event of the step, or with a SYSTEM_ERROR alert that the step puts at the
\* head of the ledger and announces.
C35_TicksAndStartsFinish ==
  /\ (ticks # EmptyBag) ~> (ticks = EmptyBag)
  /\ (calcs # EmptyBag) ~> (calcs = EmptyBag)
  /\ [][
       BagCardinality(ticks') < BagCardinality(ticks) =>
         \/ /\ last'.ret = "update"
            /\ last'.emitted # <<>>
            /\ last'.emitted[Len(last'.emitted)] = Event("update", 0)
         \/ /\ last'.ret = "rejected"
            /\ alerts' # <<>>
            /\ alerts'[1].type = "SYSTEM_ERROR"
            /\ alerts'[1].id = nextId
            /\ last'.emitted = <<Event("alert", nextId)>>
     ]_vars

\* Both ways a tick ends have happened and nothing is in flight: of the two
\* ticks, one ended with a SYSTEM_ERROR alert and the other, the last step
\* taken, with its update event; the startMonitoring call has returned
\* after a first attempt that failed.
C35_Witness ==
  /\ last.op = "getMempoolInfo"
  /\ last.ret = "update"
  /\ history.ticks = 2
  /\ ticks = EmptyBag
  /\ calcs = EmptyBag
  /\ isMonitoring
  /\ \E i \in 1..Len(alerts) : alerts[i].type = "SYSTEM_ERROR"

\* SpecWindow: one start and one stop; the ticks, one after the other,
\* fail at their fetch or find a syncing node with too few peers, so that
\* every tick creates one alert; clients acknowledge.
WindowTicks == 3

WindowSnapshots == {Snapshot(1, TRUE, 0, 49)}

WindowFetch == FetchOf(WindowSnapshots)

NextWindow ==
  \/ FullyStopped /\ ~history.stopped /\ StartMonitoring
  \/ isMonitoring /\ StopMonitoring
  \/ WaitForNodeReady
  \/ RetryDelay
  \/ GetNodeInfo
  \/ GetRecentBlockTimes
  \/ isMonitoring /\ RoomToTick(WindowTicks, 1) /\ PerformSecurityChecks
  \/ WindowFetch
  \/ AcknowledgeAlert

SpecWindow == Init /\ [][NextWindow]_vars

\* C36: while the watchdog monitors, the overall status is CRITICAL_ALERT
\* as long as the ledger holds a CRITICAL alert that is not acknowledged,
\* however many alerts of lower severity were appended after it.
C36_UnacknowledgedCriticalKeepsStatus ==
  (/\ isMonitoring
   /\ \E i \in 1..Len(alerts) :
        alerts[i].severity = "CRITICAL" /\ ~alerts[i].acknowledged)
    => getOverallStatus = "CRITICAL_ALERT"

\* C37: when the fetch of a tick succeeds against baselines that
\* calculateBaselines assigned, the hash rate of the snapshot is to the
\* baseline hash rate as its difficulty is to the baseline difficulty (the
\* two ratios are equal, stated without the division), and, the hash-rate
\* threshold being no lower than the difficulty threshold, a step that
\* creates HASH_RATE_SPIKE creates DIFFICULTY_SPIKE as well.
C37_HashRateSpikeImpliesDifficultySpike == [][
  (/\ last'.op = "fetch"
   /\ last'.ret # "rejected"
   /\ baselines.lastCalculated # Null) =>
    LET currentDifficulty == last'.arg.difficulty IN
    /\ calculateHashRate(currentDifficulty) * baselines.avgDifficulty[1]
         = currentDifficulty * baselines.avgHashRate[1]
    /\ hashRateSpikeX10 >= difficultySpikeX10
    /\ CreatedOf("HASH_RATE_SPIKE") # {} => CreatedOf("DIFFICULTY_SPIKE") # {}
  ]_vars

\* A tick has found difficulty 6 against a baseline of difficulty 1: it
\* created HASH_RATE_SPIKE and then DIFFICULTY_SPIKE.
C37_Witness ==
  /\ last.op = "fetch"
  /\ last.ret # "rejected"
  /\ last.arg.difficulty = 6
  /\ baselines.avgDifficulty = Some(1)
  /\ Len(alerts) >= 2
  /\ alerts[1].type = "DIFFICULTY_SPIKE"
  /\ alerts[2].type = "HASH_RATE_SPIKE"
  /\ alerts[1].id = nextId - 1
  /\ alerts[2].id = nextId - 2

\* SpecEvents: one start; the ticks, one after the other, find a syncing
\* node with a flooded mempool and too few peers (two alerts, then the
\* update, at the fetch) or a quiet synced node with a fork of seven
\* blocks (an alert when the chain tips arrive, another when the recent
\* blocks are ten seconds apart, the update at the end), or fail; clients
\* acknowledge.  A tick of the code creates at most nine alerts, fewer
\* than the ten getOverallStatus looks at; a tick here creates at most
\* two, StatusWindow.
EventTicks == 2

EventSnapshots == {Snapshot(1, TRUE, 10001, 49), Snapshot(1, FALSE, 0, 50)}

EventFetch == FetchOf(EventSnapshots)

NextEvents ==
  \/ FullyStopped /\ ~history.stopped /\ StartMonitoring
  \/ WaitForNodeReady
  \/ RetryDelay
  \/ GetNodeInfo
  \/ GetRecentBlockTimes
  \/ isMonitoring /\ RoomToTick(EventTicks, 1) /\ PerformSecurityChecks
  \/ EventFetch
  \/ AckGetChainTips
  \/ GetRecentBlocks
  \/ GetMempoolInfo
  \/ AcknowledgeAlert

SpecEvents == Init /\ [][NextEvents]_vars

\* The severity a status stands for, in rising order.
StatusRank ==
  [SECURE |-> 0, MEDIUM_ALERT |-> 2, HIGH_ALERT |-> 3, CRITICAL_ALERT |-> 4,
   OFFLINE |-> 0]
SeverityRank == [LOW |-> 1, MEDIUM |-> 2, HIGH |-> 3, CRITICAL |-> 4]
\* The ids in a sequence of ids.
IdsOf(ids) == {ids[k] : k \in 1..Len(ids)}

RecalcTicks == 1

RecalcSnapshots == {Snapshot(d, FALSE, 0, 50) : d \in {4, 6}}

RecalcFetch == FetchOf(RecalcSnapshots)

NextRecalc ==
  \/ FullyStopped /\ ~history.stopped /\ StartMonitoring
  \/ RoomToRecalculate(1) /\ ticks # EmptyBag /\ PostRecalculate
  \/ WaitForNodeReady
  \/ RetryDelay
  \/ RatioGetNodeInfo
  \/ DetectGetRecentBlockTimes
  \/ isMonitoring /\ RoomToTick(RecalcTicks, 1) /\ PerformSecurityChecks
  \/ RecalcFetch
  \/ SurgeGetChainTips
  \/ GetRecentBlocks
  \/ GetMempoolInfo

SpecRecalc == Init /\ [][NextRecalc]_vars

\* The types of the alerts of the ledger als whose id is id or more, oldest
\* first.
TypesFrom(als, id) ==
  LET n == Cardinality({i \in 1..Len(als) : als[i].id >= id})
  IN  [k \in 1..n |-> als[n - k + 1].type]

\* C39: the step in which the fetch of a tick succeeds takes the hash-rate
\* decision, the difficulty decision and the avgBlockTime gate against the
\* baselines of that one state, and leaves them alone; the later steps of
\* the tick take no baseline-dependent decision: they create no ratio
\* alert and end the tick at the mempool query only; and a baseline
\* computation that replaces the baselines while a tick is in flight
\* changes neither the tick nor the ledger.
C39_OneBaselinePerTick == [][
  /\ (last'.op = "fetch" /\ last'.ret # "rejected") =>
       LET currentData == last'.arg
           b == baselines
       IN  /\ baselines' = b
           /\ TypesFrom(alerts', nextId) =
                [i \in 1..Len(checkLowNodeCount(currentData.peers)) |->
                   checkLowNodeCount(currentData.peers)[i].type]
                \o [i \in 1..Len(checkMempoolFlooding(currentData.mempoolSize))
                      |-> checkMempoolFlooding(currentData.mempoolSize)[i].type]
                \o (IF Truthy(b.avgHashRate)
                    THEN [i \in 1..Len(checkHashRateAnomalies(b,
                                         currentData.difficulty)) |->
                            checkHashRateAnomalies(b,
                              currentData.difficulty)[i].type]
                    ELSE <<>>)
                \o (IF Truthy(b.avgDifficulty)
                    THEN [i \in 1..Len(checkDifficultySpikes(b,
                                         currentData.difficulty)) |->
                            checkDifficultySpikes(b,
                              currentData.difficulty)[i].type]
                    ELSE <<>>)
           /\ (last'.ret = "update") =
                (\/ currentData.initialblockdownload
                 \/ b.avgBlockTime.den = 0
                 \/ b.avgBlockTime.num <= 0)
  /\ (last'.op \in TickOps \ {"fetch"}) =>
       /\ baselines' = baselines
       /\ \A a \in Created : a.type \notin RatioTypes
       /\ (last'.ret = "update") = (last'.op = "getMempoolInfo")
  /\ (last'.op \in CalcOps /\ ticks # EmptyBag) =>
       UNCHANGED <<ticks, alerts, nextId, metrics>>
  ]_vars

\* A recalculation has just replaced baselines of difficulty 1 by
\* baselines of difficulty 20 while a tick is suspended at its chain-tips
\* query, after it found difficulty 6 and decided on the old baselines:
\* both spike alerts are in the ledger.
C39_Witness ==
  /\ last.op = "getRecentBlockTimes"
  /\ last.ret = "200"
  /\ baselines.avgDifficulty = Some(20)
  /\ \E t \in BagToSet(ticks) :
       /\ t.pc = "getChainTips"
       /\ t.currentData.difficulty = 6
       /\ Len(t.created) = 2
  /\ Len(alerts) >= 2
  /\ alerts[1].type = "DIFFICULTY_SPIKE"
  /\ alerts[2].type = "HASH_RATE_SPIKE"

====
